---------------------------- MODULE Spec2Model ----------------------------
(***************************************************************************)
(* Model of the CorePlanX solver service (tools/solver_service/app.py).    *)
(*                                                                         *)
(* Mode b (solve_problem / solve_group / build_duties / aggregate_status)  *)
(* chains activities into duties; mode a (solve_candidates) selects        *)
(* candidates under capacity limits.  The CP-SAT engine is an external     *)
(* collaborator: it is modelled by its contract, as a nondeterministic     *)
(* choice among the outcomes a correct engine may return for the model     *)
(* the code hands to it.                                                   *)
(***************************************************************************)
EXTENDS Integers, Sequences, FiniteSets, TLC

VARIABLES
    request,          \* the SolverRequest being served
    pc,               \* position of the request handler
    gi,               \* solve_problem: number of groups already solved
    duty_groups,      \* solve_problem: duty_groups
    total_edges,      \* solve_problem: total_edges
    selected_edges,   \* solve_problem: selected_edges
    total_activities, \* solve_problem: total_activities
    duty_count,       \* solve_problem: duty_count
    statuses,         \* solve_problem: statuses
    model,            \* the CpModel built by the last solve_group / solve_candidates
    selected,         \* solve_group: selected (the transitions whose variable is 1)
    response,         \* the SolverResponse returned
    arg,              \* the argument of a weighting function under test
    weight,           \* what the weighting function returned
    frame             \* build_duties: its arguments and local variables

vars == <<request, pc, gi, duty_groups, total_edges, selected_edges,
          total_activities, duty_count, statuses, model, selected, response,
          arg, weight, frame>>

-----------------------------------------------------------------------------
(* Bounds of the model *)

MaxActs == 3
MaxEdges == 2
MaxGroups == 3
MaxCands == 3

-----------------------------------------------------------------------------
(* Generic helpers *)

Range(s) == {s[i] : i \in DOMAIN s}

RECURSIVE SumSeq(_)
SumSeq(s) == IF s = <<>> THEN 0 ELSE Head(s) + SumSeq(Tail(s))

RECURSIVE Concat(_)
Concat(ss) == IF ss = <<>> THEN <<>> ELSE Head(ss) \o Concat(Tail(ss))

Max2(a, b) == IF a >= b THEN a ELSE b

-----------------------------------------------------------------------------
(* Defaults and empty values *)

DefaultOptions ==
    [max_per_service_type |-> 1, max_per_service |-> <<>>,
     weight_key |-> "gapMinutes", default_weight |-> 1]

NoArg == [kind |-> "none"]

NoWeight == [raised |-> FALSE, value |-> 0]

NoResponse ==
    [summary |-> <<>>, selectedIds |-> <<>>, dutyGroups |-> <<>>, score |-> <<>>,
     status |-> "<None>",
     stats |-> [totalCandidates |-> 0, selectedCandidates |-> 0, groupCount |-> 0]]

-----------------------------------------------------------------------------
(* The solving engine (ortools CP-SAT), by its contract.                   *)
(* A model is [nvars, constraints, objective]: boolean variables 1..nvars, *)
(* constraints sum(vars) <= bound, objective maximise sum(weight * var).   *)

EmptyModel == [nvars |-> 0, constraints |-> <<>>, objective |-> <<>>]

Assignments(m) == [1..m.nvars -> {0, 1}]

Satisfies(m, val) ==
    \A c \in DOMAIN m.constraints :
        SumSeq([k \in DOMAIN m.constraints[c].vars |-> val[m.constraints[c].vars[k]]])
            <= m.constraints[c].bound

ObjectiveValue(m, val) == SumSeq([k \in DOMAIN m.objective |-> m.objective[k] * val[k]])

FeasibleAssignments(m) == {val \in Assignments(m) : Satisfies(m, val)}

OptimalAssignments(m) ==
    LET F == FeasibleAssignments(m)
    IN  {val \in F : \A other \in F : ObjectiveValue(m, other) <= ObjectiveValue(m, val)}

\* What solver.Solve(model) may produce: a status and, for OPTIMAL/FEASIBLE,
\* the values of the variables.  UNKNOWN (time limit), INFEASIBLE and
\* MODEL_INVALID carry no values.
EngineOutcomes(m) ==
    {[status |-> "OPTIMAL", value |-> val] : val \in OptimalAssignments(m)}
    \cup {[status |-> "FEASIBLE", value |-> val] : val \in FeasibleAssignments(m)}
    \cup {[status |-> st, value |-> [k \in 1..m.nvars |-> 0]] :
              st \in {"INFEASIBLE", "UNKNOWN", "MODEL_INVALID"}}

-----------------------------------------------------------------------------
(* Mode b: weighting policy *)

EDGE_BASE_WEIGHT == 100000
MISSING_TRAVEL_PENALTY == 50000
MISSING_LOCATION_PENALTY == 50000

\* Optional[bool] flags are "None", "True" or "False"; only "True" is truthy.
Truthy(flag) == flag = "True"

\* Mutant: the weight is not raised to 1.
compute_edge_weight_unfloored(edge) ==
    LET p0 == edge.gapMinutes + edge.travelMinutes
        p1 == IF Truthy(edge.missingTravel) THEN p0 + MISSING_TRAVEL_PENALTY ELSE p0
        penalty == IF Truthy(edge.missingLocation) THEN p1 + MISSING_LOCATION_PENALTY ELSE p1
    IN  EDGE_BASE_WEIGHT - penalty

\* Mutant: the two missing-data penalties are not additive.
compute_edge_weight_single_penalty(edge) ==
    LET p0 == edge.gapMinutes + edge.travelMinutes
        penalty == IF Truthy(edge.missingTravel) \/ Truthy(edge.missingLocation)
                   THEN p0 + MISSING_TRAVEL_PENALTY ELSE p0
    IN  Max2(1, EDGE_BASE_WEIGHT - penalty)

compute_edge_weight(edge) ==
    LET p0 == edge.gapMinutes + edge.travelMinutes
        p1 == IF Truthy(edge.missingTravel) THEN p0 + MISSING_TRAVEL_PENALTY ELSE p0
        penalty == IF Truthy(edge.missingLocation) THEN p1 + MISSING_LOCATION_PENALTY ELSE p1
    IN  Max2(1, EDGE_BASE_WEIGHT - penalty)

-----------------------------------------------------------------------------
(* Mode b: group model builder and chain reconstructor *)

\* Python's ordering of the activity-id strings used by the model
\* ("" < "1" < "2" < "3" < "z").
StrOrder == <<"", "1", "2", "3", "z">>

StrRank(s) == CHOOSE k \in DOMAIN StrOrder : StrOrder[k] = s

StrLess(a, b) == StrRank(a) < StrRank(b)

\* key=lambda entry: (entry.startMs, entry.endMs, entry.id), compared as tuples
KeyLess(x, y) ==
    \/ x.startMs < y.startMs
    \/ x.startMs = y.startMs /\ x.endMs < y.endMs
    \/ x.startMs = y.startMs /\ x.endMs = y.endMs /\ StrLess(x.id, y.id)

RECURSIVE InsertSorted(_, _)
InsertSorted(x, s) ==
    IF s = <<>> THEN <<x>>
    ELSE IF KeyLess(x, Head(s)) THEN <<x>> \o s
    ELSE <<Head(s)>> \o InsertSorted(x, Tail(s))

\* Mutant: the activities keep their input order.
sorted_activities_unsorted(activities) == activities

\* sorted(activities, key=...): stable, ascending
RECURSIVE sorted_activities(_)
sorted_activities(activities) ==
    IF activities = <<>> THEN <<>>
    ELSE InsertSorted(activities[Len(activities)],
                      sorted_activities(SubSeq(activities, 1, Len(activities) - 1)))

\* dict.get: the value under key, or None
NoneId == "<None>"

Get(d, key) == IF key \in DOMAIN d THEN d[key] ELSE NoneId

Put(d, key, v) == [k \in DOMAIN d \cup {key} |-> IF k = key THEN v ELSE d[k]]

\* truth value of `cursor`: None and the empty string are falsy
Falsy(cursor) == cursor = NoneId \/ cursor = ""

\* successors[edge.fromId] = edge.toId, later edges overwrite earlier ones
RECURSIVE Successors(_)
Successors(edges_sel) ==
    IF edges_sel = <<>> THEN <<>>
    ELSE LET n == Len(edges_sel)
         IN  Put(Successors(SubSeq(edges_sel, 1, n - 1)),
                 edges_sel[n].fromId, edges_sel[n].toId)

RECURSIVE Predecessors(_)
Predecessors(edges_sel) ==
    IF edges_sel = <<>> THEN <<>>
    ELSE LET n == Len(edges_sel)
         IN  Put(Predecessors(SubSeq(edges_sel, 1, n - 1)),
                 edges_sel[n].toId, edges_sel[n].fromId)

\* while cursor and cursor not in visited: path.append; visited.add; cursor = successors.get
RECURSIVE WalkPath(_, _, _, _)
WalkPath(cursor, visited, path, successors) ==
    IF Falsy(cursor) \/ cursor \in visited
    THEN [path |-> path, visited |-> visited]
    ELSE WalkPath(Get(successors, cursor), visited \cup {cursor},
                  Append(path, cursor), successors)

\* first loop of build_duties over ordered_ids
RECURSIVE HeadPass(_, _, _, _, _)
HeadPass(ids, visited, duties, successors, predecessors) ==
    IF ids = <<>> THEN [duties |-> duties, visited |-> visited]
    ELSE LET activity_id == Head(ids)
         IN  IF activity_id \in visited \/ activity_id \in DOMAIN predecessors
             THEN HeadPass(Tail(ids), visited, duties, successors, predecessors)
             ELSE LET w == WalkPath(activity_id, visited, <<>>, successors)
                  IN  HeadPass(Tail(ids), w.visited,
                               IF w.path # <<>> THEN Append(duties, w.path) ELSE duties,
                               successors, predecessors)

\* second loop of build_duties: every id not yet visited is a singleton duty
RECURSIVE RestPass(_, _, _)
RestPass(ids, visited, duties) ==
    IF ids = <<>> THEN duties
    ELSE IF Head(ids) \notin visited
         THEN RestPass(Tail(ids), visited \cup {Head(ids)}, Append(duties, <<Head(ids)>>))
         ELSE RestPass(Tail(ids), visited, duties)

\* Mutant: the second loop is forgotten, unvisited activities get no duty.
build_duties_heads_only(ordered_ids, edges_sel) ==
    HeadPass(ordered_ids, {}, <<>>, Successors(edges_sel), Predecessors(edges_sel)).duties

\* Mutant: a cycle is broken at its first activity in canonical order and
\* emitted as one duty.
RECURSIVE RestPass_walking(_, _, _, _)
RestPass_walking(ids, visited, duties, successors) ==
    IF ids = <<>> THEN duties
    ELSE IF Head(ids) \notin visited
         THEN LET w == WalkPath(Head(ids), visited, <<>>, successors)
              IN  IF w.path = <<>>
                  THEN RestPass_walking(Tail(ids), visited \cup {Head(ids)},
                                        Append(duties, <<Head(ids)>>), successors)
                  ELSE RestPass_walking(Tail(ids), w.visited, Append(duties, w.path),
                                        successors)
         ELSE RestPass_walking(Tail(ids), visited, duties, successors)

build_duties_breaking_cycles(ordered_ids, edges_sel) ==
    LET first == HeadPass(ordered_ids, {}, <<>>,
                          Successors(edges_sel), Predecessors(edges_sel))
    IN  RestPass_walking(ordered_ids, first.visited, first.duties, Successors(edges_sel))

\* Mutant: the duties are listed in the reverse order.
build_duties_reversed(ordered_ids, edges_sel) ==
    LET first == HeadPass(ordered_ids, {}, <<>>,
                          Successors(edges_sel), Predecessors(edges_sel))
        duties == RestPass(ordered_ids, first.visited, first.duties)
    IN  [k \in DOMAIN duties |-> duties[Len(duties) + 1 - k]]

build_duties(ordered_ids, edges_sel) ==
    LET first == HeadPass(ordered_ids, {}, <<>>,
                          Successors(edges_sel), Predecessors(edges_sel))
    IN  RestPass(ordered_ids, first.visited, first.duties)

Singletons(ordered_ids) == [k \in DOMAIN ordered_ids |-> <<ordered_ids[k]>>]

\* the edges that get a decision variable, in input order (edge_vars)
ValidEdge(edge, activity_ids) == edge.fromId \in activity_ids /\ edge.toId \in activity_ids

\* Mutant: transitions with an unknown endpoint get a variable too.
edge_vars_unfiltered(group) == group.edges

edge_vars(group) ==
    LET activity_ids == {group.activities[k].id : k \in DOMAIN group.activities}
        Keep(edge) == ValidEdge(edge, activity_ids)
    IN  SelectSeq(group.edges, Keep)

\* incoming[aid] / outgoing[aid]: the variables (indices into edge_vars) per activity
incoming(evars, aid) ==
    LET Into(k) == evars[k].toId = aid
    IN  SelectSeq([k \in DOMAIN evars |-> k], Into)

outgoing(evars, aid) ==
    LET From(k) == evars[k].fromId = aid
    IN  SelectSeq([k \in DOMAIN evars |-> k], From)

\* Mutant: only the out-degree is constrained.
DegreeConstraints_outgoing_only(ordered_ids, evars) ==
    [k \in DOMAIN ordered_ids |-> [vars |-> outgoing(evars, ordered_ids[k]), bound |-> 1]]

\* Mutant: only the in-degree is constrained.
DegreeConstraints_incoming_only(ordered_ids, evars) ==
    [k \in DOMAIN ordered_ids |-> [vars |-> incoming(evars, ordered_ids[k]), bound |-> 1]]

\* model.Add(sum(incoming[a]) <= 1); model.Add(sum(outgoing[a]) <= 1) per activity
DegreeConstraints(ordered_ids, evars) ==
    Concat([k \in DOMAIN ordered_ids |->
              << [vars |-> incoming(evars, ordered_ids[k]), bound |-> 1],
                 [vars |-> outgoing(evars, ordered_ids[k]), bound |-> 1] >>])

\* Mutant: the objective counts the selected transitions instead of weighting them.
GroupModel_unweighted(ordered_ids, evars) ==
    [nvars |-> Len(evars),
     constraints |-> DegreeConstraints(ordered_ids, evars),
     objective |-> [k \in DOMAIN evars |-> 1]]

GroupModel(ordered_ids, evars) ==
    [nvars |-> Len(evars),
     constraints |-> DegreeConstraints(ordered_ids, evars),
     objective |-> [k \in DOMAIN evars |-> compute_edge_weight(evars[k])]]

GroupResult(duties, edge_count, selected_count, status_name, m, sel) ==
    [duties |-> duties, edge_count |-> edge_count, selected_count |-> selected_count,
     status_name |-> status_name, model |-> m, selected |-> sel]

\* Mutant: a group without activities is reported like one without transitions.
solve_group_empty_is_optimal(group) ==
    LET ordered_ids == [k \in DOMAIN group.activities |->
                            sorted_activities(group.activities)[k].id]
        evars == edge_vars(group)
        m == GroupModel(ordered_ids, evars)
    IN  IF group.activities = <<>> \/ group.edges = <<>>
        THEN {GroupResult(Singletons(ordered_ids), 0, 0, "OPTIMAL", EmptyModel, <<>>)}
        ELSE IF evars = <<>>
        THEN {GroupResult(Singletons(ordered_ids), 0, 0, "OPTIMAL", m, <<>>)}
        ELSE {IF out.status \notin {"OPTIMAL", "FEASIBLE"}
              THEN GroupResult(Singletons(ordered_ids), Len(evars), 0, out.status, m, <<>>)
              ELSE LET Chosen(k) == out.value[k] = 1
                       sel == [j \in DOMAIN SelectSeq([k \in DOMAIN evars |-> k], Chosen) |->
                                  evars[SelectSeq([k \in DOMAIN evars |-> k], Chosen)[j]]]
                   IN  GroupResult(build_duties(ordered_ids, sel), Len(evars), Len(sel),
                                   out.status, m, sel)
              : out \in EngineOutcomes(m)}

\* solve_group: the set of results it may return, one per engine outcome
solve_group(group) ==
    LET ordered_ids == [k \in DOMAIN group.activities |->
                            sorted_activities(group.activities)[k].id]
        evars == edge_vars(group)
        m == GroupModel(ordered_ids, evars)
    IN  IF group.activities = <<>>
        THEN {GroupResult(<<>>, 0, 0, "NO_ACTIVITIES", EmptyModel, <<>>)}
        ELSE IF group.edges = <<>>
        THEN {GroupResult(Singletons(ordered_ids), 0, 0, "OPTIMAL", EmptyModel, <<>>)}
        ELSE IF evars = <<>>
        THEN {GroupResult(Singletons(ordered_ids), 0, 0, "OPTIMAL", m, <<>>)}
        ELSE {IF out.status \notin {"OPTIMAL", "FEASIBLE"}
              THEN GroupResult(Singletons(ordered_ids), Len(evars), 0, out.status, m, <<>>)
              ELSE LET Chosen(k) == out.value[k] = 1
                       sel == [j \in DOMAIN SelectSeq([k \in DOMAIN evars |-> k], Chosen) |->
                                  evars[SelectSeq([k \in DOMAIN evars |-> k], Chosen)[j]]]
                   IN  GroupResult(build_duties(ordered_ids, sel), Len(evars), Len(sel),
                                   out.status, m, sel)
              : out \in EngineOutcomes(m)}

\* Mutant: FEASIBLE is tested before INFEASIBLE.
aggregate_status_feasible_first(sts) ==
    IF sts = <<>> THEN "OPTIMAL"
    ELSE IF \E k \in DOMAIN sts : sts[k] = "FEASIBLE" THEN "FEASIBLE"
    ELSE IF \E k \in DOMAIN sts : sts[k] = "INFEASIBLE" THEN "INFEASIBLE"
    ELSE "OPTIMAL"

aggregate_status(sts) ==
    IF sts = <<>> THEN "OPTIMAL"
    ELSE IF \E k \in DOMAIN sts : sts[k] = "INFEASIBLE" THEN "INFEASIBLE"
    ELSE IF \E k \in DOMAIN sts : sts[k] = "FEASIBLE" THEN "FEASIBLE"
    ELSE "OPTIMAL"

-----------------------------------------------------------------------------
(* Mode a: parameter values and the weighting policy *)

\* A value of the parameter bag (Dict[str, Any]): tag t, number n, text s.
\* An int carries n; a float carries n quarters (n = 10 is 2.5); a bool
\* carries 0 or 1; a str carries its characters in s; "absent" is a key the
\* bag does not hold and "null" is a key holding None.
Absent == [t |-> "absent", n |-> 0, s |-> <<>>]

Null == [t |-> "null", n |-> 0, s |-> <<>>]

IntV(n) == [t |-> "int", n |-> n, s |-> <<>>]

FloatV(quarters) == [t |-> "float", n |-> quarters, s |-> <<>>]

BoolV(b) == [t |-> "bool", n |-> IF b THEN 1 ELSE 0, s |-> <<>>]

StrV(chars) == [t |-> "str", n |-> 0, s |-> chars]

\* params.get(key): None for a missing key and for a key holding None
ParamGet(params, key) == IF key \in DOMAIN params THEN params[key] ELSE Absent

IsNone(v) == v.t \in {"absent", "null"}

\* truth value of a parameter value (`value or "_"`)
PyTruthy(v) ==
    CASE v.t \in {"absent", "null"} -> FALSE
      [] v.t = "str" -> v.s # <<>>
      [] OTHER -> v.n # 0

Digits == <<"0", "1", "2", "3", "4", "5", "6", "7", "8", "9">>

IsDigit(c) == \E d \in DOMAIN Digits : Digits[d] = c

DigitValue(c) == (CHOOSE d \in DOMAIN Digits : Digits[d] = c) - 1

RECURSIVE NatStr(_)
NatStr(n) == IF n < 10 THEN <<Digits[n + 1]>> ELSE NatStr(n \div 10) \o <<Digits[(n % 10) + 1]>>

IntStr(n) == IF n < 0 THEN <<"-">> \o NatStr(0 - n) ELSE NatStr(n)

\* repr of a float given in quarters: 10 -> "2.5", 8 -> "2.0", -1 -> "-0.25"
FloatStr(q) ==
    LET a == IF q < 0 THEN 0 - q ELSE q
        frac == CASE a % 4 = 0 -> <<"0">> [] a % 4 = 1 -> <<"2", "5">>
                  [] a % 4 = 2 -> <<"5">> [] OTHER -> <<"7", "5">>
    IN  (IF q < 0 THEN <<"-">> ELSE <<>>) \o NatStr(a \div 4) \o <<".">> \o frac

\* str(value)
PyStr(v) ==
    CASE v.t = "str" -> v.s
      [] v.t = "int" -> IntStr(v.n)
      [] v.t = "float" -> FloatStr(v.n)
      [] v.t = "bool" -> IF v.n = 1 THEN <<"T", "r", "u", "e">> ELSE <<"F", "a", "l", "s", "e">>
      [] OTHER -> <<"N", "o", "n", "e">>

\* str.strip(): leading and trailing blanks removed
RECURSIVE LStrip(_)
LStrip(chars) == IF chars # <<>> /\ Head(chars) = " " THEN LStrip(Tail(chars)) ELSE chars

RECURSIVE RStrip(_)
RStrip(chars) ==
    IF chars # <<>> /\ chars[Len(chars)] = " "
    THEN RStrip(SubSeq(chars, 1, Len(chars) - 1)) ELSE chars

Strip(chars) == RStrip(LStrip(chars))

RECURSIVE DigitsValue(_)
DigitsValue(chars) ==
    IF chars = <<>> THEN 0
    ELSE DigitsValue(SubSeq(chars, 1, Len(chars) - 1)) * 10 + DigitValue(chars[Len(chars)])

RECURSIVE Pow10(_)
Pow10(k) == IF k = 0 THEN 1 ELSE 10 * Pow10(k - 1)

\* A float as the model carries it: a finite number of quarters, nan or an
\* infinity; NotANumber stands for "no float" (None).
Finite(quarters) == [kind |-> "finite", q |-> quarters]

NaN == [kind |-> "nan", q |-> 0]

Infinity(sign) == [kind |-> "inf", q |-> sign]

NotANumber == [kind |-> "none", q |-> 0]

\* float(text) for texts over digits, ".", "+", "-", blanks and letters (no
\* exponent, no underscore): an optional sign, then "nan", "inf", "infinity"
\* or digits with at most one point and at least one digit; anything else
\* raises ValueError (NotANumber).  Fractions are exact quarters.
ParseFloat(chars) ==
    LET t == Strip(chars)
        signed == t # <<>> /\ Head(t) \in {"+", "-"}
        sign == IF signed /\ Head(t) = "-" THEN 0 - 1 ELSE 1
        body == IF signed THEN Tail(t) ELSE t
        points == {k \in DOMAIN body : body[k] = "."}
        point == IF points = {} THEN Len(body) + 1 ELSE CHOOSE k \in points : TRUE
        whole == SubSeq(body, 1, point - 1)
        frac == SubSeq(body, point + 1, Len(body))
    IN  IF body = <<"n", "a", "n">> THEN NaN
        ELSE IF body \in {<<"i", "n", "f">>, <<"i", "n", "f", "i", "n", "i", "t", "y">>}
        THEN Infinity(sign)
        ELSE IF /\ Cardinality(points) <= 1
                /\ Len(whole) + Len(frac) >= 1
                /\ \A k \in DOMAIN body : k = point \/ IsDigit(body[k])
        THEN Finite(sign * (DigitsValue(whole) * 4 + (DigitsValue(frac) * 4) \div Pow10(Len(frac))))
        ELSE NotANumber

coerce_number(value) ==
    CASE value.t = "int" -> Finite(4 * value.n)
      [] value.t = "bool" -> Finite(4 * value.n)
      [] value.t = "float" -> Finite(value.n)
      [] value.t = "str" -> ParseFloat(value.s)
      [] OTHER -> NotANumber

\* round(x) of a finite float in quarters: to the nearest integer, ties to even
PyRound(q) ==
    LET fl == q \div 4
        r == q % 4
    IN  IF r < 2 THEN fl
        ELSE IF r > 2 THEN fl + 1
        ELSE IF fl % 2 = 0 THEN fl ELSE fl + 1

\* compute_weight returns an int, or raises (int(round(nan)) is a ValueError,
\* int(round(inf)) an OverflowError)
Returned(w) == [raised |-> FALSE, value |-> w]

Raised == [raised |-> TRUE, value |-> 0]

\* Mutant: the weight is not raised to 1.
compute_weight_unclamped(candidate, options) ==
    LET v0 == ParamGet(candidate.params, options.weight_key)
        v1 == IF IsNone(v0) /\ options.weight_key # "gapMinutes"
              THEN ParamGet(candidate.params, "gapMinutes") ELSE v0
        value == IF IsNone(v1) THEN ParamGet(candidate.params, "durationMinutes") ELSE v1
        numeric == coerce_number(value)
    IN  IF numeric.kind = "none" THEN Returned(options.default_weight)
        ELSE IF numeric.kind = "finite" THEN Returned(PyRound(numeric.q))
        ELSE Raised

\* Mutant: durationMinutes is consulted before gapMinutes.
compute_weight_duration_first(candidate, options) ==
    LET v0 == ParamGet(candidate.params, options.weight_key)
        v1 == IF IsNone(v0) THEN ParamGet(candidate.params, "durationMinutes") ELSE v0
        value == IF IsNone(v1) /\ options.weight_key # "gapMinutes"
                 THEN ParamGet(candidate.params, "gapMinutes") ELSE v1
        numeric == coerce_number(value)
    IN  IF numeric.kind = "none" THEN Returned(Max2(1, options.default_weight))
        ELSE IF numeric.kind = "finite" THEN Returned(Max2(1, PyRound(numeric.q)))
        ELSE Raised

compute_weight(candidate, options) ==
    LET v0 == ParamGet(candidate.params, options.weight_key)
        v1 == IF IsNone(v0) /\ options.weight_key # "gapMinutes"
              THEN ParamGet(candidate.params, "gapMinutes") ELSE v0
        value == IF IsNone(v1) THEN ParamGet(candidate.params, "durationMinutes") ELSE v1
        numeric == coerce_number(value)
    IN  IF numeric.kind = "none" THEN Returned(Max2(1, options.default_weight))
        ELSE IF numeric.kind = "finite" THEN Returned(Max2(1, PyRound(numeric.q)))
        ELSE Raised

-----------------------------------------------------------------------------
(* Mode a: candidate model builder *)

\* service_id = str(candidate.params.get("serviceId") or "_")
ServiceIdOf(candidate) ==
    LET v == ParamGet(candidate.params, "serviceId")
    IN  IF PyTruthy(v) THEN PyStr(v) ELSE <<"_">>

\* dict.setdefault(key, []).append(var) over all candidates: the variables
\* (candidate positions) per key, keys in order of first appearance
Grouped(keys) ==
    LET positions == [k \in DOMAIN keys |-> k]
        IsFirst(k) == \A j \in 1..(k - 1) : keys[j] # keys[k]
        firsts == SelectSeq(positions, IsFirst)
    IN  [g \in DOMAIN firsts |->
            LET SameKey(k) == keys[k] = keys[firsts[g]]
            IN  SelectSeq(positions, SameKey)]

LimitConstraints(groups, limit) ==
    [g \in DOMAIN groups |-> [vars |-> groups[g], bound |-> limit]]

\* Mutant: the per-(service, type) limits are forgotten.
CandidateModel_no_type_limit(candidates, options, weights) ==
    LET grouped_by_service == Grouped([k \in DOMAIN candidates |-> ServiceIdOf(candidates[k])])
    IN  [nvars |-> Len(candidates),
         constraints |->
             IF options.max_per_service # <<>>
             THEN LimitConstraints(grouped_by_service, Max2(1, options.max_per_service[1]))
             ELSE <<>>,
         objective |-> weights]

\* Mutant: the per-service limits are forgotten.
CandidateModel_no_service_limit(candidates, options, weights) ==
    LET grouped == Grouped([k \in DOMAIN candidates |->
                              <<ServiceIdOf(candidates[k]), candidates[k].type>>])
    IN  [nvars |-> Len(candidates),
         constraints |-> LimitConstraints(grouped, Max2(1, options.max_per_service_type)),
         objective |-> weights]

\* Mutant: the objective counts the selected candidates instead of weighting them.
CandidateModel_unweighted(candidates, options, weights) ==
    LET grouped == Grouped([k \in DOMAIN candidates |->
                              <<ServiceIdOf(candidates[k]), candidates[k].type>>])
        grouped_by_service == Grouped([k \in DOMAIN candidates |-> ServiceIdOf(candidates[k])])
    IN  [nvars |-> Len(candidates),
         constraints |->
             LimitConstraints(grouped, Max2(1, options.max_per_service_type))
             \o (IF options.max_per_service # <<>>
                 THEN LimitConstraints(grouped_by_service, Max2(1, options.max_per_service[1]))
                 ELSE <<>>),
         objective |-> [k \in DOMAIN weights |-> 1]]

\* Mutant: the limits are taken as given, not raised to 1.
CandidateModel_unclamped(candidates, options, weights) ==
    LET grouped == Grouped([k \in DOMAIN candidates |->
                              <<ServiceIdOf(candidates[k]), candidates[k].type>>])
        grouped_by_service == Grouped([k \in DOMAIN candidates |-> ServiceIdOf(candidates[k])])
    IN  [nvars |-> Len(candidates),
         constraints |->
             LimitConstraints(grouped, options.max_per_service_type)
             \o (IF options.max_per_service # <<>>
                 THEN LimitConstraints(grouped_by_service, options.max_per_service[1])
                 ELSE <<>>),
         objective |-> weights]

\* the model of solve_candidates: one variable per candidate, the
\* per-(service, type) limits, then the per-service limits when
\* options.max_per_service is set (<<>> is None)
CandidateModel(candidates, options, weights) ==
    LET grouped == Grouped([k \in DOMAIN candidates |->
                              <<ServiceIdOf(candidates[k]), candidates[k].type>>])
        grouped_by_service == Grouped([k \in DOMAIN candidates |-> ServiceIdOf(candidates[k])])
        limit_per_type == Max2(1, options.max_per_service_type)
    IN  [nvars |-> Len(candidates),
         constraints |->
             LimitConstraints(grouped, limit_per_type)
             \o (IF options.max_per_service # <<>>
                 THEN LimitConstraints(grouped_by_service, Max2(1, options.max_per_service[1]))
                 ELSE <<>>),
         objective |-> weights]

GroupCount(candidates) ==
    Cardinality({<<ServiceIdOf(candidates[k]), candidates[k].type>> : k \in DOMAIN candidates})

\* Mutant: a response with a selection is reported as OPTIMAL.
CandidateResponse_status_upgraded(selected_ids, score, status_name, total, group_count) ==
    [summary |-> <<"candidates", Len(selected_ids), total, status_name>>,
     selectedIds |-> selected_ids,
     dutyGroups |-> <<>>,
     score |-> score,
     status |-> IF selected_ids # <<>> THEN "OPTIMAL" ELSE status_name,
     stats |-> [totalCandidates |-> total, selectedCandidates |-> Len(selected_ids),
                groupCount |-> group_count]]

CandidateResponse(selected_ids, score, status_name, total, group_count) ==
    [summary |-> <<"candidates", Len(selected_ids), total, status_name>>,
     selectedIds |-> selected_ids,
     dutyGroups |-> <<>>,
     score |-> score,
     status |-> status_name,
     stats |-> [totalCandidates |-> total, selectedCandidates |-> Len(selected_ids),
                groupCount |-> group_count]]

\* Mutant: the score is the objective value whatever the selection.
solve_candidates_score_always(req) ==
    LET candidates == req.candidates
        weighed == [k \in DOMAIN candidates |-> compute_weight(candidates[k], req.options)]
        m == CandidateModel(candidates, req.options, [k \in DOMAIN weighed |-> weighed[k].value])
    IN  IF candidates = <<>>
        THEN {[raised |-> FALSE, model |-> EmptyModel,
               response |-> CandidateResponse(<<>>, <<>>, "NO_CANDIDATES", 0, 0)]}
        ELSE IF \E k \in DOMAIN weighed : weighed[k].raised
        THEN {[raised |-> TRUE, model |-> EmptyModel, response |-> NoResponse]}
        ELSE {LET Chosen(k) == out.status \in {"OPTIMAL", "FEASIBLE"} /\ out.value[k] = 1
                  picked == SelectSeq([k \in DOMAIN candidates |-> k], Chosen)
                  selected_ids == [j \in DOMAIN picked |-> candidates[picked[j]].id]
              IN  [raised |-> FALSE, model |-> m,
                   response |-> CandidateResponse(selected_ids, <<ObjectiveValue(m, out.value)>>,
                                                  out.status, Len(candidates),
                                                  GroupCount(candidates))]
              : out \in EngineOutcomes(m)}

\* Mutant: an empty candidate list is answered with score 0.
solve_candidates_zero_score(req) ==
    LET candidates == req.candidates
        weighed == [k \in DOMAIN candidates |-> compute_weight(candidates[k], req.options)]
        m == CandidateModel(candidates, req.options, [k \in DOMAIN weighed |-> weighed[k].value])
    IN  IF candidates = <<>>
        THEN {[raised |-> FALSE, model |-> EmptyModel,
               response |-> CandidateResponse(<<>>, <<0>>, "NO_CANDIDATES", 0, 0)]}
        ELSE IF \E k \in DOMAIN weighed : weighed[k].raised
        THEN {[raised |-> TRUE, model |-> EmptyModel, response |-> NoResponse]}
        ELSE {LET Chosen(k) == out.status \in {"OPTIMAL", "FEASIBLE"} /\ out.value[k] = 1
                  picked == SelectSeq([k \in DOMAIN candidates |-> k], Chosen)
                  selected_ids == [j \in DOMAIN picked |-> candidates[picked[j]].id]
                  score == IF selected_ids # <<>> THEN <<ObjectiveValue(m, out.value)>> ELSE <<>>
              IN  [raised |-> FALSE, model |-> m,
                   response |-> CandidateResponse(selected_ids, score, out.status,
                                                  Len(candidates), GroupCount(candidates))]
              : out \in EngineOutcomes(m)}

\* solve_candidates: the set of results it may produce, one per engine
\* outcome; a weight that raises makes the handler raise
solve_candidates(req) ==
    LET candidates == req.candidates
        weighed == [k \in DOMAIN candidates |-> compute_weight(candidates[k], req.options)]
        m == CandidateModel(candidates, req.options, [k \in DOMAIN weighed |-> weighed[k].value])
    IN  IF candidates = <<>>
        THEN {[raised |-> FALSE, model |-> EmptyModel,
               response |-> CandidateResponse(<<>>, <<>>, "NO_CANDIDATES", 0, 0)]}
        ELSE IF \E k \in DOMAIN weighed : weighed[k].raised
        THEN {[raised |-> TRUE, model |-> EmptyModel, response |-> NoResponse]}
        ELSE {LET Chosen(k) == out.status \in {"OPTIMAL", "FEASIBLE"} /\ out.value[k] = 1
                  picked == SelectSeq([k \in DOMAIN candidates |-> k], Chosen)
                  selected_ids == [j \in DOMAIN picked |-> candidates[picked[j]].id]
                  score == IF selected_ids # <<>> THEN <<ObjectiveValue(m, out.value)>> ELSE <<>>
              IN  [raised |-> FALSE, model |-> m,
                   response |-> CandidateResponse(selected_ids, score, out.status,
                                                  Len(candidates), GroupCount(candidates))]
              : out \in EngineOutcomes(m)}

-----------------------------------------------------------------------------
(* Requests *)

\* Activity ids of the model; "z" is an id no activity carries.
ActIds == {"", "1", "2", "3"}

DanglingId == "z"

\* (startMs, endMs) per activity id: a chronological layout (ids "" and "1"
\* tie on both instants) and a reversed one ("3" and "2" tie on startMs).
Chronological ==
    [a \in ActIds |-> CASE a = "" -> <<0, 10>> [] a = "1" -> <<0, 10>>
                        [] a = "2" -> <<20, 30>> [] OTHER -> <<40, 50>>]

Reversed ==
    [a \in ActIds |-> CASE a = "" -> <<40, 50>> [] a = "1" -> <<20, 30>>
                        [] a = "2" -> <<0, 30>> [] OTHER -> <<0, 10>>]

\* input layouts: activities listed in canonical order, in the reverse of it,
\* and in an order that is neither
Layouts ==
    { [ascending |-> TRUE, tp |-> Chronological],
      [ascending |-> FALSE, tp |-> Chronological],
      [ascending |-> TRUE, tp |-> Reversed] }

\* the ids of `ids` as a list, ascending or descending in Python's string order
RECURSIVE IdList(_, _)
IdList(ids, ascending) ==
    IF ids = {} THEN <<>>
    ELSE LET lo == CHOOSE x \in ids : \A y \in ids : x = y \/ StrLess(x, y)
         IN  IF ascending THEN <<lo>> \o IdList(ids \ {lo}, ascending)
             ELSE IdList(ids \ {lo}, ascending) \o <<lo>>

\* the activity list of a group: one activity per id (ids are unique), listed
\* in ascending or descending id order, with the instants of time profile tp
ActivityList(ids, ascending, tp) ==
    LET order == IdList(ids, ascending)
    IN  [k \in DOMAIN order |->
            [id |-> order[k], startMs |-> tp[order[k]][1], endMs |-> tp[order[k]][2]]]

\* gap/travel/flags of a transition: an unpenalised one (weight 99993) and
\* one missing both travel time and location (weight 1)
Unpenalised ==
    [gapMinutes |-> 5, travelMinutes |-> 2, missingTravel |-> "None", missingLocation |-> "None"]

MissingBoth ==
    [gapMinutes |-> 0, travelMinutes |-> 0, missingTravel |-> "True", missingLocation |-> "True"]

MakeEdge(f, t, p) ==
    [fromId |-> f, toId |-> t, gapMinutes |-> p.gapMinutes, travelMinutes |-> p.travelMinutes,
     missingTravel |-> p.missingTravel, missingLocation |-> p.missingLocation]

\* the transitions offered to a group over ids: every ordered pair of its ids
\* (self-loops included) unpenalised, every pair from a smaller to a larger id
\* also with both data missing, and dangling ones (from, to and between ids
\* that no activity carries)
EdgesOver(ids) ==
    {MakeEdge(f, t, Unpenalised) : f \in ids, t \in ids}
    \cup {MakeEdge(p[1], p[2], MissingBoth) : p \in {q \in ids \X ids : StrLess(q[1], q[2])}}
    \cup {MakeEdge(DanglingId, DanglingId, Unpenalised)}
    \cup {MakeEdge(DanglingId, t, Unpenalised) : t \in {x \in ids : \A y \in ids : ~StrLess(y, x)}}
    \cup {MakeEdge(f, DanglingId, Unpenalised) : f \in {x \in ids : \A y \in ids : ~StrLess(y, x)}}

\* Transition lists are enumerated up to permutation: one list per multiset.
EdgeKey(e) == (StrRank(e.fromId) * 10 + StrRank(e.toId)) * 10 + e.gapMinutes

UpToPermutation(es) == \A i, j \in DOMAIN es : i < j => EdgeKey(es[i]) <= EdgeKey(es[j])

MakeGroup(gid, activities, edges) ==
    [id |-> gid, ownerId |-> "owner-" \o gid, ownerKind |-> "personnel", dayKey |-> "day-" \o gid,
     activities |-> activities, edges |-> edges]

ProblemRequest(groups) ==
    [candidates |-> <<>>, has_problem |-> TRUE, groups |-> groups, options |-> DefaultOptions]

-----------------------------------------------------------------------------
(* Handlers *)

\* build_duties not called
NoFrame ==
    [ordered_ids |-> <<>>, selected_edges |-> <<>>, successors |-> <<>>,
     predecessors |-> <<>>, duties |-> <<>>, visited |-> {}, index |-> 0,
     path |-> <<>>, cursor |-> NoneId]

InitLocalsAt(position) ==
    /\ pc = position
    /\ gi = 0
    /\ duty_groups = <<>>
    /\ total_edges = 0
    /\ selected_edges = 0
    /\ total_activities = 0
    /\ duty_count = 0
    /\ statuses = <<>>
    /\ model = EmptyModel
    /\ selected = <<>>
    /\ response = NoResponse

InitLocals == InitLocalsAt("solve") /\ arg = NoArg /\ weight = NoWeight /\ frame = NoFrame

\* Mutant: mode a is selected whenever there are candidates.
Solve_candidates_first ==
    /\ pc = "solve"
    /\ pc' = IF request.candidates = <<>> /\ request.has_problem /\ request.groups # <<>>
             THEN "solve_problem" ELSE "solve_candidates"
    /\ UNCHANGED <<request, gi, duty_groups, total_edges, selected_edges,
                   total_activities, duty_count, statuses, model, selected, response,
                   arg, weight, frame>>

\* Mutant: mode b is selected whenever a problem is present.
Solve_problem_present ==
    /\ pc = "solve"
    /\ pc' = IF request.has_problem THEN "solve_problem" ELSE "solve_candidates"
    /\ UNCHANGED <<request, gi, duty_groups, total_edges, selected_edges,
                   total_activities, duty_count, statuses, model, selected, response,
                   arg, weight, frame>>

\* solve: mode b iff request.problem is present with a non-empty groups list
Solve ==
    /\ pc = "solve"
    /\ pc' = IF request.has_problem /\ request.groups # <<>>
             THEN "solve_problem" ELSE "solve_candidates"
    /\ UNCHANGED <<request, gi, duty_groups, total_edges, selected_edges,
                   total_activities, duty_count, statuses, model, selected, response,
          arg, weight, frame>>

\* Mutant: every listed transition is counted, dangling ones included.
SolveGroupIter_counting_listed ==
    /\ pc = "solve_problem"
    /\ gi < Len(request.groups)
    /\ LET group == request.groups[gi + 1]
       IN  \E r \in solve_group(group) :
             /\ duty_groups' = Append(duty_groups,
                                 [groupId |-> group.id, ownerId |-> group.ownerId,
                                  ownerKind |-> group.ownerKind, dayKey |-> group.dayKey,
                                  duties |-> r.duties])
             /\ total_edges' = total_edges + Len(group.edges)
             /\ selected_edges' = selected_edges + r.selected_count
             /\ total_activities' = total_activities + Len(group.activities)
             /\ duty_count' = duty_count + Len(r.duties)
             /\ statuses' = Append(statuses, r.status_name)
             /\ model' = r.model
             /\ selected' = r.selected
    /\ gi' = gi + 1
    /\ UNCHANGED <<request, pc, response, arg, weight, frame>>

\* Mutant: the duty group of the group solved last is put first.
SolveGroupIter_prepending ==
    /\ pc = "solve_problem"
    /\ gi < Len(request.groups)
    /\ LET group == request.groups[gi + 1]
       IN  \E r \in solve_group(group) :
             /\ duty_groups' = <<[groupId |-> group.id, ownerId |-> group.ownerId,
                                  ownerKind |-> group.ownerKind, dayKey |-> group.dayKey,
                                  duties |-> r.duties]>> \o duty_groups
             /\ total_edges' = total_edges + r.edge_count
             /\ selected_edges' = selected_edges + r.selected_count
             /\ total_activities' = total_activities + Len(group.activities)
             /\ duty_count' = duty_count + Len(r.duties)
             /\ statuses' = Append(statuses, r.status_name)
             /\ model' = r.model
             /\ selected' = r.selected
    /\ gi' = gi + 1
    /\ UNCHANGED <<request, pc, response, arg, weight, frame>>

\* one iteration of `for group in groups` in solve_problem
SolveGroupIter ==
    /\ pc = "solve_problem"
    /\ gi < Len(request.groups)
    /\ LET group == request.groups[gi + 1]
       IN  \E r \in solve_group(group) :
             /\ duty_groups' = Append(duty_groups,
                                 [groupId |-> group.id, ownerId |-> group.ownerId,
                                  ownerKind |-> group.ownerKind, dayKey |-> group.dayKey,
                                  duties |-> r.duties])
             /\ total_edges' = total_edges + r.edge_count
             /\ selected_edges' = selected_edges + r.selected_count
             /\ total_activities' = total_activities + Len(group.activities)
             /\ duty_count' = duty_count + Len(r.duties)
             /\ statuses' = Append(statuses, r.status_name)
             /\ model' = r.model
             /\ selected' = r.selected
    /\ gi' = gi + 1
    /\ UNCHANGED <<request, pc, response, arg, weight, frame>>

\* the tail of solve_problem: aggregate the statuses and assemble the response
AssembleProblem ==
    /\ pc = "solve_problem"
    /\ gi = Len(request.groups)
    /\ LET overall_status == aggregate_status(statuses)
       IN  response' =
             [summary |-> <<"duties", duty_count, total_activities, overall_status>>,
              selectedIds |-> <<>>,
              dutyGroups |-> duty_groups,
              score |-> <<>>,
              status |-> overall_status,
              stats |-> [totalCandidates |-> total_edges,
                         selectedCandidates |-> selected_edges,
                         groupCount |-> Len(request.groups)]]
    /\ pc' = "done"
    /\ UNCHANGED <<request, gi, duty_groups, total_edges, selected_edges,
                   total_activities, duty_count, statuses, model, selected,
                   arg, weight, frame>>

NextProblem == Solve \/ SolveGroupIter \/ AssembleProblem

\* one group per request: up to MaxActs activities over ActIds, up to MaxEdges
\* transitions between the group's ids and the dangling id
InitGroup ==
    /\ \E ids \in SUBSET ActIds, lay \in Layouts, n \in 0..MaxEdges :
         /\ Cardinality(ids) <= MaxActs
         /\ \E es \in [1..n -> EdgesOver(ids)] :
              /\ UpToPermutation(es)
              /\ request = ProblemRequest(
                     <<MakeGroup("G1", ActivityList(ids, lay.ascending, lay.tp), es)>>)
    /\ InitLocals

SpecGroup == InitGroup /\ [][NextProblem]_vars

\* The groups of a multi-group request are drawn from a pool: a group without
\* activities, a single activity without transitions, two activities joined by
\* one transition, two activities joined in both directions, and two
\* activities whose only transition dangles.
PoolGroups ==
    { MakeGroup("P0", <<>>, <<MakeEdge("1", "2", Unpenalised)>>),
      MakeGroup("P1", ActivityList({"1"}, TRUE, Chronological), <<>>),
      MakeGroup("P2", ActivityList({"1", "2"}, FALSE, Chronological),
                <<MakeEdge("1", "2", Unpenalised)>>),
      MakeGroup("P3", ActivityList({"1", "2"}, TRUE, Chronological),
                <<MakeEdge("1", "2", MissingBoth), MakeEdge("2", "1", Unpenalised)>>),
      MakeGroup("P4", ActivityList({"2", "3"}, TRUE, Reversed),
                <<MakeEdge("2", DanglingId, Unpenalised)>>) }

\* a request of 1..MaxGroups groups
InitProblem ==
    /\ \E n \in 1..MaxGroups : \E gs \in [1..n -> PoolGroups] : request = ProblemRequest(gs)
    /\ InitLocals

SpecProblem == InitProblem /\ [][NextProblem]_vars

-----------------------------------------------------------------------------
(* Mode a requests *)

\* solve_candidates as one step
SolveCandidates ==
    /\ pc = "solve_candidates"
    /\ \E r \in solve_candidates(request) :
          /\ pc' = IF r.raised THEN "raised" ELSE "done"
          /\ response' = r.response
          /\ model' = r.model
    /\ UNCHANGED <<request, gi, duty_groups, total_edges, selected_edges,
                   total_activities, duty_count, statuses, selected,
                   arg, weight, frame>>

NextCandidates == Solve \/ SolveCandidates

\* candidate ids by position
CandidateIds == <<"a", "b", "c", "d", "e", "f">>

\* what a candidate of the model may be: serviceId absent, "_" or "S1"; type
\* X or Y; gapMinutes 5 or 2
ServiceValues == <<StrV(<<"S", "1">>), Absent, StrV(<<"_">>)>>

TypeValues == <<"X", "Y">>

GapValues == <<IntV(5), IntV(2)>>

KindCount == Len(ServiceValues) * Len(TypeValues) * Len(GapValues)

MakeCandidate(position, kind) ==
    [id |-> CandidateIds[position], templateId |-> "tpl",
     type |-> TypeValues[((kind \div Len(GapValues)) % Len(TypeValues)) + 1],
     params |-> [serviceId |-> ServiceValues[(kind \div (Len(GapValues) * Len(TypeValues))) + 1],
                 gapMinutes |-> GapValues[(kind % Len(GapValues)) + 1]]]

\* max_per_service_type and max_per_service (<<>> is None) of the model
OptionValues ==
    { [max_per_service_type |-> t, max_per_service |-> s,
       weight_key |-> "gapMinutes", default_weight |-> 1] :
        t \in {0, 1, 2}, s \in {<<>>, <<0>>, <<1>>} }

\* a request of up to MaxCands candidates (candidate lists are enumerated up
\* to permutation) without a problem
InitCandidates ==
    /\ \E n \in 0..MaxCands, options \in OptionValues :
         \E kinds \in [1..n -> 0..(KindCount - 1)] :
            /\ \A i, j \in 1..n : i < j => kinds[i] <= kinds[j]
            /\ request = [candidates |-> [k \in 1..n |-> MakeCandidate(k, kinds[k])],
                          has_problem |-> FALSE, groups |-> <<>>, options |-> options]
    /\ InitLocals

SpecCandidates == InitCandidates /\ [][NextCandidates]_vars

-----------------------------------------------------------------------------
(* The weighting functions on their own *)

WeighEdge ==
    /\ pc = "weigh"
    /\ arg.kind = "edge"
    /\ weight' = Returned(compute_edge_weight(arg.edge))
    /\ pc' = "weighed"
    /\ UNCHANGED <<request, gi, duty_groups, total_edges, selected_edges, total_activities,
                   duty_count, statuses, model, selected, response, arg, frame>>

WeighCandidate ==
    /\ pc = "weigh"
    /\ arg.kind = "candidate"
    /\ weight' = compute_weight(arg.candidate, arg.options)
    /\ pc' = "weighed"
    /\ UNCHANGED <<request, gi, duty_groups, total_edges, selected_edges, total_activities,
                   duty_count, statuses, model, selected, response, arg, frame>>

NextWeight == WeighEdge \/ WeighCandidate

EdgeMinutes == {0 - 5, 0, 2, 5, 49999, 50000, 99999, 100000, 200000}

EdgeFlags == {"None", "True", "False"}

\* texts a parameter may hold
ParamTexts ==
    { <<"1", "5">>, <<" ", "1", "5", " ">>, <<"2", ".", "5">>, <<"0">>, <<"-", "3">>,
      <<"0", ".", "5">>, <<"a", "b", "c">>, <<>>, <<"1", "5", "x">>,
      <<"n", "a", "n">>, <<"i", "n", "f">>, <<"-", "i", "n", "f">> }

\* values of the parameter the weight is read from
WeightValues ==
    {Absent, Null, BoolV(TRUE), BoolV(FALSE)}
    \cup {IntV(n) : n \in {0 - 3, 0, 1, 2, 5}}
    \cup {FloatV(q) : q \in {0 - 2, 1, 2, 6, 10, 14}}
    \cup {StrV(t) : t \in ParamTexts}

FallbackValues == {Absent, Null, IntV(7), StrV(<<"a", "b", "c">>)}

WeightKeys == {"gapMinutes", "cost", "durationMinutes", "other"}

DefaultWeights == {0 - 2, 0, 1, 3}

InitWeight ==
    /\ request = ProblemRequest(<<>>)
    /\ InitLocalsAt("weigh")
    /\ weight = NoWeight
    /\ frame = NoFrame
    /\ \/ \E g \in EdgeMinutes, tr \in EdgeMinutes, mt \in EdgeFlags, ml \in EdgeFlags :
            arg = [kind |-> "edge",
                   edge |-> [fromId |-> "1", toId |-> "2", gapMinutes |-> g, travelMinutes |-> tr,
                             missingTravel |-> mt, missingLocation |-> ml]]
       \/ \E v \in WeightValues, g \in FallbackValues, d \in FallbackValues,
             key \in WeightKeys, dw \in DefaultWeights :
            arg = [kind |-> "candidate",
                   candidate |-> [id |-> "a", templateId |-> "tpl", type |-> "X",
                                  params |-> IF key = "gapMinutes"
                                             THEN [gapMinutes |-> v, durationMinutes |-> d]
                                             ELSE [cost |-> v, gapMinutes |-> g,
                                                   durationMinutes |-> d]],
                   options |-> [max_per_service_type |-> 1, max_per_service |-> <<>>,
                                weight_key |-> key, default_weight |-> dw]]

SpecWeight == InitWeight /\ [][NextWeight]_vars

-----------------------------------------------------------------------------
(* The service as a whole: requests of either mode *)

\* what the weight parameter of a candidate may hold: a number, a numeric
\* text, a text that is no number, the texts nan and inf, a boolean, null,
\* nothing
ServiceGaps ==
    << IntV(5), FloatV(10), StrV(<<"1", "5">>), StrV(<<"a", "b", "c">>),
       StrV(<<"n", "a", "n">>), StrV(<<"i", "n", "f">>), BoolV(TRUE), Null, Absent >>

ServiceCandidate(position, kind) ==
    [id |-> CandidateIds[position], templateId |-> "tpl", type |-> "X",
     params |-> [serviceId |-> StrV(<<"S", "1">>), gapMinutes |-> ServiceGaps[kind]]]

ServiceOptions ==
    { DefaultOptions, [DefaultOptions EXCEPT !.max_per_service_type = 2, !.default_weight = 3] }

\* the groups of a whole-service request: one without activities, one the
\* engine is called for, one whose only transition dangles
ServiceGroups == {g \in PoolGroups : g.id \in {"P0", "P2", "P4"}}

NextService == Solve \/ SolveGroupIter \/ AssembleProblem \/ SolveCandidates

\* a request without groups (problem absent, or present with an empty groups
\* list) and up to MaxCands candidates, or a request with 1..MaxGroups groups,
\* either option set and at most one candidate (weighing 5, or with the text
\* nan as its weight)
InitService ==
    /\ \/ \E n \in 0..MaxCands, options \in ServiceOptions, hp \in BOOLEAN :
            \E kinds \in [1..n -> DOMAIN ServiceGaps] :
               /\ \A i, j \in 1..n : i < j => kinds[i] <= kinds[j]
               /\ request = [candidates |-> [k \in 1..n |-> ServiceCandidate(k, kinds[k])],
                             has_problem |-> hp, groups |-> <<>>, options |-> options]
       \/ \E n \in 1..MaxGroups, c \in 0..1, kind \in {1, 5}, options \in ServiceOptions :
            \E gs \in [1..n -> ServiceGroups] :
               request = [candidates |-> [k \in 1..c |-> ServiceCandidate(k, kind)],
                          has_problem |-> TRUE, groups |-> gs, options |-> options]
    /\ InitLocals

SpecService == InitService /\ [][NextService]_vars

-----------------------------------------------------------------------------
(* Requests for the matching properties: one group, or candidates *)

\* a request with one group (activities listed in canonical order) or a
\* request of up to MaxCands candidates with options from OptionValues
InitMatching ==
    /\ \/ \E ids \in SUBSET ActIds, n \in 0..MaxEdges :
            /\ Cardinality(ids) <= MaxActs
            /\ \E es \in [1..n -> EdgesOver(ids)] :
                 /\ UpToPermutation(es)
                 /\ request = ProblemRequest(
                        <<MakeGroup("G1", ActivityList(ids, TRUE, Chronological), es)>>)
       \/ \E n \in 0..MaxCands, options \in OptionValues :
            \E kinds \in [1..n -> 0..(KindCount - 1)] :
               /\ \A i, j \in 1..n : i < j => kinds[i] <= kinds[j]
               /\ request = [candidates |-> [k \in 1..n |-> MakeCandidate(k, kinds[k])],
                             has_problem |-> FALSE, groups |-> <<>>,
                             options |-> options]
    /\ InitLocals

SpecMatching == InitMatching /\ [][NextService]_vars

-----------------------------------------------------------------------------
(* build_duties, statement by statement *)

\* what build_duties leaves alone
Outside ==
    <<request, gi, duty_groups, total_edges, selected_edges, total_activities,
      duty_count, statuses, model, selected, response, arg, weight>>

\* one iteration of `for edge in selected_edges`
LinkEdge ==
    /\ pc = "links"
    /\ frame.index < Len(frame.selected_edges)
    /\ LET edge == frame.selected_edges[frame.index + 1]
       IN  frame' = [frame EXCEPT
                        !.successors = Put(@, edge.fromId, edge.toId),
                        !.predecessors = Put(@, edge.toId, edge.fromId),
                        !.index = @ + 1]
    /\ UNCHANGED <<pc, Outside>>

\* the links are complete: duties and visited are created, the first loop
\* over ordered_ids begins
StartHeads ==
    /\ pc = "links"
    /\ frame.index = Len(frame.selected_edges)
    /\ frame' = [frame EXCEPT !.duties = <<>>, !.visited = {}, !.index = 0]
    /\ pc' = "heads"
    /\ UNCHANGED Outside

\* one iteration of the first `for activity_id in ordered_ids`, up to the
\* while loop: visited activities and activities with a predecessor are
\* passed over, any other starts a path
NextHead ==
    /\ pc = "heads"
    /\ frame.index < Len(frame.ordered_ids)
    /\ LET activity_id == frame.ordered_ids[frame.index + 1]
       IN  IF activity_id \in frame.visited \/ activity_id \in DOMAIN frame.predecessors
           THEN /\ frame' = [frame EXCEPT !.index = @ + 1]
                /\ pc' = pc
           ELSE /\ frame' = [frame EXCEPT !.index = @ + 1, !.path = <<>>,
                                          !.cursor = activity_id]
                /\ pc' = "while"
    /\ UNCHANGED Outside

\* one iteration of `while cursor and cursor not in visited`
WalkStep ==
    /\ pc = "while"
    /\ ~Falsy(frame.cursor)
    /\ frame.cursor \notin frame.visited
    /\ frame' = [frame EXCEPT !.path = Append(@, frame.cursor),
                              !.visited = @ \cup {frame.cursor},
                              !.cursor = Get(frame.successors, frame.cursor)]
    /\ UNCHANGED <<pc, Outside>>

\* the while loop is left: a path that is not empty becomes a duty
EndWalk ==
    /\ pc = "while"
    /\ Falsy(frame.cursor) \/ frame.cursor \in frame.visited
    /\ frame' = [frame EXCEPT !.duties = IF frame.path # <<>>
                                         THEN Append(@, frame.path) ELSE @,
                              !.path = <<>>]
    /\ pc' = "heads"
    /\ UNCHANGED Outside

\* the first loop is over, the second loop over ordered_ids begins
StartRest ==
    /\ pc = "heads"
    /\ frame.index = Len(frame.ordered_ids)
    /\ frame' = [frame EXCEPT !.index = 0]
    /\ pc' = "rest"
    /\ UNCHANGED Outside

\* Mutant: the second loop does not look at visited.
RestStep_revisiting ==
    /\ pc = "rest"
    /\ frame.index < Len(frame.ordered_ids)
    /\ LET activity_id == frame.ordered_ids[frame.index + 1]
       IN  frame' = [frame EXCEPT !.index = @ + 1,
                                  !.duties = Append(@, <<activity_id>>),
                                  !.visited = @ \cup {activity_id}]
    /\ UNCHANGED <<pc, Outside>>

\* one iteration of the second `for activity_id in ordered_ids`
RestStep ==
    /\ pc = "rest"
    /\ frame.index < Len(frame.ordered_ids)
    /\ LET activity_id == frame.ordered_ids[frame.index + 1]
       IN  IF activity_id \notin frame.visited
           THEN frame' = [frame EXCEPT !.index = @ + 1,
                                       !.duties = Append(@, <<activity_id>>),
                                       !.visited = @ \cup {activity_id}]
           ELSE frame' = [frame EXCEPT !.index = @ + 1]
    /\ UNCHANGED <<pc, Outside>>

\* return duties
ReturnDuties ==
    /\ pc = "rest"
    /\ frame.index = Len(frame.ordered_ids)
    /\ pc' = "returned"
    /\ UNCHANGED <<frame, Outside>>

NextDuties ==
    LinkEdge \/ StartHeads \/ NextHead \/ WalkStep \/ EndWalk \/ StartRest
    \/ RestStep \/ ReturnDuties

\* names of activities; the empty string may stand at any one place
DutyNames == <<"1", "2", "3", "4", "5">>

\* build_duties is called with a list of up to MaxActs unique ids (one of
\* them possibly the empty string) and a list of up to MaxEdges transitions
\* from one of the ids to one of the ids or to an id no activity carries:
\* self-loops, cycles, and several transitions sharing a fromId or a toId
\* are among them
InitDuties ==
    /\ request = ProblemRequest(<<>>)
    /\ InitLocalsAt("links")
    /\ arg = NoArg
    /\ weight = NoWeight
    /\ \E n \in 0..MaxActs, e \in 0..MaxActs, m \in 0..MaxEdges :
         /\ n <= Len(DutyNames)
         /\ e <= n
         /\ LET ids == [k \in 1..n |-> IF k = e THEN "" ELSE DutyNames[k]]
            IN  \E froms \in [1..m -> Range(ids)],
                   tos \in [1..m -> Range(ids) \cup {DanglingId}] :
                  frame = [NoFrame EXCEPT
                             !.ordered_ids = ids,
                             !.selected_edges =
                                 [k \in 1..m |-> MakeEdge(froms[k], tos[k], Unpenalised)]]

\* build_duties runs to its end: a statement that can be executed is executed
SpecDuties == InitDuties /\ [][NextDuties]_vars /\ WF_vars(NextDuties)

-----------------------------------------------------------------------------
(* Properties of mode b *)

\* the group solved last, its status and its duties
Solved == pc \in {"solve_problem", "done"} /\ gi >= 1

LastGroup == request.groups[gi]

LastStatus == statuses[gi]

LastDuties == duty_groups[gi].duties

EngineSolved == Solved /\ LastStatus \in {"OPTIMAL", "FEASIBLE"}

IdsOf(activities) == {activities[k].id : k \in DOMAIN activities}

\* the nodes reached from the nodes S by exactly one transition of es
StepFrom(S, es) == {es[k].toId : k \in {j \in DOMAIN es : es[j].fromId \in S}}

StepInto(S, es) == {es[k].fromId : k \in {j \in DOMAIN es : es[j].toId \in S}}

RECURSIVE ReachedFrom(_, _, _)
ReachedFrom(S, es, steps) ==
    IF steps = 0 \/ S = {} THEN {}
    ELSE StepFrom(S, es) \cup ReachedFrom(StepFrom(S, es), es, steps - 1)

\* some node of es lies on a directed cycle (a self-loop is a cycle)
HasCycle(es) == \E k \in DOMAIN es : es[k].fromId \in ReachedFrom({es[k].fromId}, es, Len(es))

\* C1: the duties of every solved group are non-empty and their concatenation
\* holds every activity id of the group exactly once and no other id,
\* whatever the engine returned.
PartitionLaw ==
    \A g \in 1..gi :
        LET duties == duty_groups[g].duties
            flat == Concat(duties)
            ids == IdsOf(request.groups[g].activities)
        IN  /\ \A d \in DOMAIN duties : duties[d] # <<>>
            /\ \A k \in DOMAIN flat : flat[k] \in ids
            /\ \A a \in ids : Cardinality({k \in DOMAIN flat : flat[k] = a}) = 1

\* C1 witness: the engine selected a two-cycle and the group still got duties
PartitionLawWitness ==
    /\ EngineSolved
    /\ \E i, j \in DOMAIN selected :
          /\ i # j
          /\ selected[i].fromId = selected[j].toId
          /\ selected[i].toId = selected[j].fromId
    /\ Len(LastDuties) >= 2

\* C2: in an OPTIMAL or FEASIBLE solution no activity id is the fromId of two
\* selected transitions nor the toId of two selected transitions.
DegreeInvariant ==
    EngineSolved =>
        \A a \in ActIds \cup {DanglingId} :
            /\ Cardinality({k \in DOMAIN selected : selected[k].fromId = a}) <= 1
            /\ Cardinality({k \in DOMAIN selected : selected[k].toId = a}) <= 1

\* C2 witness: two transitions connect the same ordered pair of activities and
\* one of them is selected
DegreeInvariantWitness ==
    /\ EngineSolved
    /\ Len(selected) = 1
    /\ \E i, j \in DOMAIN LastGroup.edges :
          /\ i # j
          /\ LastGroup.edges[i].fromId = selected[1].fromId
          /\ LastGroup.edges[j].fromId = selected[1].fromId
          /\ LastGroup.edges[i].toId = selected[1].toId
          /\ LastGroup.edges[j].toId = selected[1].toId

\* C3 as stated: the transitions selected in an OPTIMAL or FEASIBLE solution
\* are cycle-free.
SelectionCycleFree == EngineSolved => ~HasCycle(selected)

\* C3 as amended: the selected transitions form vertex-disjoint simple paths
\* and simple cycles (from any activity, following selected transitions
\* forwards or backwards never branches), and they are cycle-free whenever the
\* valid transitions of the group contain no directed cycle.
SelectionPathsAndCycles ==
    EngineSolved =>
        /\ \A a \in IdsOf(LastGroup.activities) :
              /\ Cardinality(StepFrom({a}, selected)) <= 1
              /\ Cardinality(StepInto({a}, selected)) <= 1
        /\ \A i, j \in DOMAIN selected :
              (i # j) => (selected[i].fromId # selected[j].fromId
                          /\ selected[i].toId # selected[j].toId)
        /\ (~HasCycle(edge_vars(LastGroup)) => ~HasCycle(selected))

\* C3 witness: the group holds a->b and b->a and the solution selects a cycle
SelectionPathsAndCyclesWitness ==
    /\ EngineSolved
    /\ LastStatus = "OPTIMAL"
    /\ HasCycle(selected)
    /\ \E i, j \in DOMAIN LastGroup.edges :
          /\ LastGroup.edges[i].fromId # LastGroup.edges[i].toId
          /\ LastGroup.edges[i].fromId = LastGroup.edges[j].toId
          /\ LastGroup.edges[i].toId = LastGroup.edges[j].fromId
\* the total weight of a list of transitions
RECURSIVE TotalEdgeWeight(_)
TotalEdgeWeight(es) ==
    IF es = <<>> THEN 0 ELSE compute_edge_weight(Head(es)) + TotalEdgeWeight(Tail(es))

\* the transitions of a group with both endpoints among its activities
ValidTransitions(group) ==
    LET ids == IdsOf(group.activities)
        Inside(e) == e.fromId \in ids /\ e.toId \in ids
    IN  SelectSeq(group.edges, Inside)

\* a set of positions of es in which every activity has at most one incoming
\* and at most one outgoing transition
DegreeFeasible(es, picked) ==
    \A i, j \in picked :
        (i # j) => (es[i].fromId # es[j].fromId /\ es[i].toId # es[j].toId)

PickedWeight(es, picked) ==
    TotalEdgeWeight([k \in 1..Cardinality(picked) |->
        es[CHOOSE i \in picked : Cardinality({j \in picked : j < i}) = k - 1]])

\* the largest total weight of a degree-feasible subset of the valid transitions
BestMatchingWeight(group) ==
    LET es == ValidTransitions(group)
        feasible == {picked \in SUBSET DOMAIN es : DegreeFeasible(es, picked)}
    IN  CHOOSE w \in {PickedWeight(es, picked) : picked \in feasible} :
            \A picked \in feasible : PickedWeight(es, picked) <= w

\* the group of end-to-end scenario 2: activities 1, 2, 3 and transitions
\* 1->2 and 2->3 with gap 5 and travel 2
ChainScenario(group) ==
    /\ group.activities = <<[id |-> "1", startMs |-> 0, endMs |-> 10],
                            [id |-> "2", startMs |-> 20, endMs |-> 30],
                            [id |-> "3", startMs |-> 40, endMs |-> 50]>>
    /\ group.edges = <<MakeEdge("1", "2", Unpenalised), MakeEdge("2", "3", Unpenalised)>>

\* C9: when a group's status is OPTIMAL the weight of the selected
\* transitions is the largest weight of any degree-feasible subset of the
\* group's valid transitions; for the chain 1->2->3 both transitions are
\* selected and the single duty is [1, 2, 3].
GroupOptimality ==
    (Solved /\ LastStatus = "OPTIMAL") =>
        /\ TotalEdgeWeight(selected) = BestMatchingWeight(LastGroup)
        /\ ChainScenario(LastGroup) =>
              /\ selected = LastGroup.edges
              /\ LastDuties = << <<"1", "2", "3">> >>

\* C9 witness: the chain scenario solved to optimality, both transitions selected
GroupOptimalityWitness ==
    /\ Solved
    /\ LastStatus = "OPTIMAL"
    /\ ChainScenario(LastGroup)
    /\ LastDuties = << <<"1", "2", "3">> >>
    /\ TotalEdgeWeight(selected) = 2 * 99993

\* C4 as stated: when the engine returns a status other than OPTIMAL for some
\* group, the overall status of the response is not OPTIMAL.
NoSilentUpgrade ==
    (pc = "done" /\ \E k \in DOMAIN statuses :
                        statuses[k] \in {"FEASIBLE", "INFEASIBLE", "UNKNOWN", "MODEL_INVALID"})
        => response.status # "OPTIMAL"

\* C5: the overall status is INFEASIBLE if any group status is INFEASIBLE,
\* otherwise FEASIBLE if any group status is FEASIBLE, otherwise OPTIMAL; it
\* depends on the set of group statuses only, not on their order.
StatusAggregation ==
    pc = "done" =>
        /\ Len(statuses) = Len(request.groups)
        /\ ("INFEASIBLE" \in Range(statuses) => response.status = "INFEASIBLE")
        /\ ("INFEASIBLE" \notin Range(statuses) /\ "FEASIBLE" \in Range(statuses)
                => response.status = "FEASIBLE")
        /\ (Range(statuses) \cap {"INFEASIBLE", "FEASIBLE"} = {}
                => response.status = "OPTIMAL")

\* C5 witness: a FEASIBLE group precedes an INFEASIBLE one and the overall
\* status is INFEASIBLE
StatusAggregationWitness ==
    /\ pc = "done"
    /\ \E i, j \in DOMAIN statuses :
          i < j /\ statuses[i] = "FEASIBLE" /\ statuses[j] = "INFEASIBLE"
    /\ \E k \in DOMAIN statuses : statuses[k] \in {"UNKNOWN", "NO_ACTIVITIES"}
    /\ response.status = "INFEASIBLE"

-----------------------------------------------------------------------------
(* Properties of mode a and of the weighting policy *)

Candidates == request.candidates

\* the positions of the candidates whose id is among selectedIds
SelectedPositions ==
    {k \in DOMAIN Candidates :
        \E j \in DOMAIN response.selectedIds : response.selectedIds[j] = Candidates[k].id}

SameService(i, k) == ServiceIdOf(Candidates[i]) = ServiceIdOf(Candidates[k])

SameServiceType(i, k) == SameService(i, k) /\ Candidates[i].type = Candidates[k].type

SelectedLike(k, Like(_, _)) == Cardinality({i \in SelectedPositions : Like(i, k)})

PerServiceSet == request.options.max_per_service # <<>>

\* C6 as stated: at most as many ids are selected as there are candidates,
\* and per (serviceId, type) key at most options.maxPerServiceType.
CapacityPerTypeAsStated ==
    pc = "done" =>
        /\ Len(response.selectedIds) <= Len(Candidates)
        /\ \A k \in DOMAIN Candidates :
              SelectedLike(k, SameServiceType) <= request.options.max_per_service_type

\* C6 as amended: at most as many ids are selected as there are candidates,
\* and per (serviceId, type) key at most max(1, options.maxPerServiceType).
CapacityPerType ==
    pc = "done" =>
        /\ Len(response.selectedIds) <= Len(Candidates)
        /\ response.stats.selectedCandidates <= response.stats.totalCandidates
        /\ \A k \in DOMAIN Candidates :
              SelectedLike(k, SameServiceType) <= Max2(1, request.options.max_per_service_type)

\* C6 witness: a (serviceId, type) key with more candidates than the limit,
\* filled up to the limit
CapacityPerTypeWitness ==
    /\ pc = "done"
    /\ response.status = "OPTIMAL"
    /\ request.options.max_per_service_type = 2
    /\ \E k \in DOMAIN Candidates :
          /\ Cardinality({i \in DOMAIN Candidates : SameServiceType(i, k)}) = 3
          /\ SelectedLike(k, SameServiceType) = 2

\* C7 as stated: with maxPerService set, per serviceId at most maxPerService
\* candidates are selected across all types, and per (serviceId, type) key at
\* most maxPerServiceType.
CapacityPerServiceAsStated ==
    (pc = "done" /\ PerServiceSet) =>
        \A k \in DOMAIN Candidates :
            /\ SelectedLike(k, SameService) <= request.options.max_per_service[1]
            /\ SelectedLike(k, SameServiceType) <= request.options.max_per_service_type

\* C7 as amended: with maxPerService set, per serviceId at most
\* max(1, maxPerService) candidates are selected across all types and per
\* (serviceId, type) key at most max(1, maxPerServiceType); with maxPerService
\* not set the model holds the per-(serviceId, type) constraints only.
CapacityPerService ==
    (pc = "done" /\ Candidates # <<>>) =>
        /\ PerServiceSet =>
              \A k \in DOMAIN Candidates :
                  /\ SelectedLike(k, SameService) <= Max2(1, request.options.max_per_service[1])
                  /\ SelectedLike(k, SameServiceType)
                        <= Max2(1, request.options.max_per_service_type)
        /\ ~PerServiceSet =>
              /\ Len(model.constraints) = response.stats.groupCount
              /\ \A c \in DOMAIN model.constraints :
                    \A i, k \in Range(model.constraints[c].vars) : SameServiceType(i, k)

\* C7 witness: a service with candidates of both types, where the per-type
\* limit alone would admit two selections and the per-service limit admits one
CapacityPerServiceWitness ==
    /\ pc = "done"
    /\ response.status = "OPTIMAL"
    /\ request.options.max_per_service = <<1>>
    /\ \E i, k \in DOMAIN Candidates :
          /\ SameService(i, k)
          /\ Candidates[i].type # Candidates[k].type
          /\ SelectedLike(k, SameService) = 1

\* C8: every weight the weighting functions return is an integer >= 1.
WeightAtLeastOne ==
    pc = "weighed" => (~weight.raised => (weight.value \in Int /\ weight.value >= 1))

\* C8 witness: a candidate whose parameter is 0 or negative, weighed with a
\* defaultWeight <= 0, got weight 1
WeightAtLeastOneWitness ==
    /\ pc = "weighed"
    /\ arg.kind = "candidate"
    /\ arg.options.default_weight <= 0
    /\ ParamGet(arg.candidate.params, arg.options.weight_key).t = "int"
    /\ ParamGet(arg.candidate.params, arg.options.weight_key).n <= 0
    /\ weight = Returned(1)

\* the limits a set of candidate positions has to respect
WithinLimits(picked) ==
    \A k \in picked :
        /\ Cardinality({i \in picked : SameServiceType(i, k)})
              <= Max2(1, request.options.max_per_service_type)
        /\ PerServiceSet =>
              Cardinality({i \in picked : SameService(i, k)})
                  <= Max2(1, request.options.max_per_service[1])

RECURSIVE PickedCandidateWeight(_)
PickedCandidateWeight(picked) ==
    IF picked = {} THEN 0
    ELSE LET k == CHOOSE i \in picked : TRUE
         IN  compute_weight(Candidates[k], request.options).value
             + PickedCandidateWeight(picked \ {k})

\* the two candidates of end-to-end scenario 1
TwoCandidateScenario ==
    /\ Len(Candidates) = 2
    /\ Candidates[1].id = "a" /\ Candidates[2].id = "b"
    /\ Candidates[1].type = "X" /\ Candidates[2].type = "X"
    /\ Candidates[1].params = [serviceId |-> StrV(<<"S", "1">>), gapMinutes |-> IntV(5)]
    /\ Candidates[2].params = [serviceId |-> StrV(<<"S", "1">>), gapMinutes |-> IntV(2)]
    /\ request.options.max_per_service_type = 1

\* C10: when the status is OPTIMAL the score is the largest total weight of a
\* candidate subset within the per-(serviceId, type) and per-service limits
\* and the selected candidates have that weight; of two candidates of one
\* (serviceId, type) with gapMinutes 5 and 2 and limit 1, the one with 5 wins.
CandidateOptimality ==
    (pc = "done" /\ response.status = "OPTIMAL") =>
        /\ response.score # <<>>
        /\ \A picked \in SUBSET DOMAIN Candidates :
              WithinLimits(picked) => PickedCandidateWeight(picked) <= response.score[1]
        /\ WithinLimits(SelectedPositions)
        /\ PickedCandidateWeight(SelectedPositions) = response.score[1]
        /\ TwoCandidateScenario => (response.selectedIds = <<"a">> /\ response.score = <<5>>)

\* C10 witness: scenario 1 solved to optimality
CandidateOptimalityWitness ==
    /\ pc = "done"
    /\ response.status = "OPTIMAL"
    /\ TwoCandidateScenario
    /\ response.selectedIds = <<"a">>
    /\ response.score = <<5>>

-----------------------------------------------------------------------------
(* Properties of the weighting policy, in detail *)

EdgeWeighed == pc = "weighed" /\ arg.kind = "edge"

\* the edge under test with other minutes
WithMinutes(edge, g, tr) == [edge EXCEPT !.gapMinutes = g, !.travelMinutes = tr]

\* the edge under test with other flags
WithFlags(edge, mt, ml) == [edge EXCEPT !.missingTravel = mt, !.missingLocation = ml]

\* the penalty one flag contributes
FlagPenalty(flag) == IF flag = "True" THEN 50000 ELSE 0

\* C11: the weight of a transition is max(1, 100000 - (gapMinutes +
\* travelMinutes + 50000 if missingTravel + 50000 if missingLocation)); each
\* flag costs the same whatever the other flag is, the weight does not
\* increase when gapMinutes + travelMinutes grows, and with both flags set and
\* non-negative minutes the weight is exactly 1.
EdgeWeightFormula ==
    EdgeWeighed =>
        LET e == arg.edge
            minutes == e.gapMinutes + e.travelMinutes
        IN  /\ weight = Returned(Max2(1, 100000 - (minutes + FlagPenalty(e.missingTravel)
                                                   + FlagPenalty(e.missingLocation))))
            /\ \A ml \in EdgeFlags :
                  100000 - minutes - FlagPenalty(ml) - 50000 >= 1 =>
                      compute_edge_weight(WithFlags(e, "False", ml))
                        - compute_edge_weight(WithFlags(e, "True", ml)) = 50000
            /\ \A mt \in EdgeFlags :
                  100000 - minutes - FlagPenalty(mt) - 50000 >= 1 =>
                      compute_edge_weight(WithFlags(e, mt, "False"))
                        - compute_edge_weight(WithFlags(e, mt, "True")) = 50000
            /\ \A g \in EdgeMinutes, tr \in EdgeMinutes :
                  g + tr >= minutes => compute_edge_weight(WithMinutes(e, g, tr)) <= weight.value
            /\ (e.missingTravel = "True" /\ e.missingLocation = "True"
                  /\ e.gapMinutes >= 0 /\ e.travelMinutes >= 0) => weight.value = 1

\* C11 witness: a transition missing travel time only, weighed 100000 - 7 - 50000
EdgeWeightFormulaWitness ==
    /\ EdgeWeighed
    /\ arg.edge.gapMinutes = 5 /\ arg.edge.travelMinutes = 2
    /\ arg.edge.missingTravel = "True" /\ arg.edge.missingLocation = "False"
    /\ weight = Returned(49993)

CandidateWeighed == pc = "weighed" /\ arg.kind = "candidate"

\* the value the lookup order of C12 arrives at: the one under weightKey,
\* else (weightKey not being gapMinutes) the one under gapMinutes, else the
\* one under durationMinutes; a key holding null counts as absent
LookedUp(params, key) ==
    IF ~IsNone(ParamGet(params, key)) THEN ParamGet(params, key)
    ELSE IF key # "gapMinutes" /\ ~IsNone(ParamGet(params, "gapMinutes"))
    THEN ParamGet(params, "gapMinutes")
    ELSE ParamGet(params, "durationMinutes")

\* a text that float() does not accept
NotNumericText(v) == v.t = "str" /\ ParseFloat(v.s).kind = "none"

\* C12: whenever compute_weight returns, it has used the value under
\* weightKey, else the one under gapMinutes (weightKey not being gapMinutes),
\* else the one under durationMinutes; with no value found, or a text that is
\* not a number, the weight is max(1, defaultWeight) and otherwise
\* max(1, round(value)); {gapMinutes: "15"} with default options weighs 15
\* and {} with defaultWeight 3 weighs 3; a malformed value under weightKey is
\* not replaced by the next field.
WeightLookupOrder ==
    (CandidateWeighed /\ ~weight.raised) =>
        LET params == arg.candidate.params
            key == arg.options.weight_key
            v == LookedUp(params, key)
        IN  /\ (IsNone(v) \/ NotNumericText(v))
                  => weight.value = Max2(1, arg.options.default_weight)
            /\ ~(IsNone(v) \/ NotNumericText(v))
                  => weight.value = Max2(1, PyRound(coerce_number(v).q))
            /\ (key = "gapMinutes" /\ arg.options.default_weight = 1
                  /\ ParamGet(params, "gapMinutes") = StrV(<<"1", "5">>)) => weight.value = 15
            /\ (\A k \in DOMAIN params : params[k] = Absent) /\ arg.options.default_weight = 3
                  => weight.value = 3
            /\ NotNumericText(ParamGet(params, key))
                  => weight.value = Max2(1, arg.options.default_weight)

\* C12 witness: weightKey is cost, cost is absent, gapMinutes holds a text
\* that is not a number and durationMinutes holds 7: the weight is
\* defaultWeight 3, not 7
WeightLookupOrderWitness ==
    /\ CandidateWeighed
    /\ arg.options.weight_key = "cost"
    /\ arg.options.default_weight = 3
    /\ arg.candidate.params.cost = Absent
    /\ arg.candidate.params.gapMinutes = StrV(<<"a", "b", "c">>)
    /\ arg.candidate.params.durationMinutes = IntV(7)
    /\ weight = Returned(3)

-----------------------------------------------------------------------------
(* Properties of mode b: degenerate groups *)

AllDangling(group) == ValidTransitions(group) = <<>>

\* the ids of a group's activities in canonical order
OrderedIds(group) ==
    [k \in DOMAIN group.activities |-> sorted_activities(group.activities)[k].id]

\* the number of valid transitions of the first g groups
RECURSIVE ValidCount(_)
ValidCount(g) ==
    IF g = 0 THEN 0 ELSE ValidCount(g - 1) + Len(ValidTransitions(request.groups[g]))

\* duties are one singleton per activity, ascending by (startMs, endMs, id)
CanonicalSingletons(duties, activities) ==
    /\ Len(duties) = Len(activities)
    /\ \A d \in DOMAIN duties : Len(duties[d]) = 1
    /\ {duties[d][1] : d \in DOMAIN duties} = IdsOf(activities)
    /\ \A d, e \in DOMAIN duties :
          d < e => \E i, j \in DOMAIN activities :
                      /\ activities[i].id = duties[d][1]
                      /\ activities[j].id = duties[e][1]
                      /\ KeyLess(activities[i], activities[j])

\* what C13 says of every group, its last clause left aside: the model handed
\* to the engine, on which alone the status depends, is the model of the
\* group without its dangling transitions
DanglingIgnored ==
    Solved =>
        /\ model.nvars = Len(ValidTransitions(LastGroup))
        /\ \A k \in DOMAIN selected : ValidEdge(selected[k], IdsOf(LastGroup.activities))
        /\ total_edges = ValidCount(gi)
        /\ selected_edges <= total_edges
        /\ pc = "done" => /\ response.stats.totalCandidates = ValidCount(Len(request.groups))
                          /\ response.stats.selectedCandidates = selected_edges
        /\ \A g \in 1..gi :
              \A d \in DOMAIN duty_groups[g].duties :
                 \A k \in DOMAIN duty_groups[g].duties[d] :
                    duty_groups[g].duties[d][k] \in IdsOf(request.groups[g].activities)
        /\ ~AllDangling(LastGroup) =>
              /\ model = GroupModel(OrderedIds(LastGroup), ValidTransitions(LastGroup))
              /\ LastStatus \in {"OPTIMAL", "FEASIBLE", "INFEASIBLE", "UNKNOWN", "MODEL_INVALID"}

\* C13 as stated: dangling transitions get no variable, are never selected nor
\* counted, bring no unknown id into a duty and do not change the status; a
\* group all of whose transitions dangle yields one singleton duty per
\* activity with status OPTIMAL and counts 0/0.
DanglingDroppedAsStated ==
    /\ DanglingIgnored
    /\ (Solved /\ AllDangling(LastGroup)) =>
          /\ CanonicalSingletons(LastDuties, LastGroup.activities)
          /\ LastStatus = "OPTIMAL"
          /\ total_edges - ValidCount(gi - 1) = 0
          /\ selected = <<>>

\* C13 as amended: as stated, the last clause for groups with at least one
\* activity; a group without activities whose transitions (all dangling) are
\* given has status NO_ACTIVITIES and no duty.
DanglingDropped ==
    /\ DanglingIgnored
    /\ (Solved /\ AllDangling(LastGroup) /\ LastGroup.activities # <<>>) =>
          /\ CanonicalSingletons(LastDuties, LastGroup.activities)
          /\ LastStatus = "OPTIMAL"
          /\ total_edges - ValidCount(gi - 1) = 0
          /\ selected = <<>>
    /\ (Solved /\ LastGroup.activities = <<>>) =>
          /\ LastDuties = <<>>
          /\ LastStatus = "NO_ACTIVITIES"
          /\ selected = <<>>

\* C13 witness: a group with a valid and a dangling transition, solved to
\* optimality: one variable, the valid transition selected, one counted
DanglingDroppedWitness ==
    /\ pc = "done"
    /\ LastStatus = "OPTIMAL"
    /\ Len(LastGroup.edges) = 2
    /\ \E k \in DOMAIN LastGroup.edges : LastGroup.edges[k].toId = DanglingId
    /\ model.nvars = 1
    /\ Len(selected) = 1
    /\ response.stats.totalCandidates = 1
    /\ response.stats.selectedCandidates = 1

\* C16: a group with at least one activity and no transition has exactly one
\* singleton duty per activity, ascending by (startMs, endMs, id), status
\* OPTIMAL and counts 0/0, and no model is built or handed to the engine.
ZeroTransitionGroup ==
    (Solved /\ LastGroup.activities # <<>> /\ LastGroup.edges = <<>>) =>
        /\ CanonicalSingletons(LastDuties, LastGroup.activities)
        /\ LastStatus = "OPTIMAL"
        /\ selected = <<>>
        /\ model = EmptyModel
        /\ Len(request.groups) = 1 => total_edges = 0 /\ selected_edges = 0
        /\ (pc = "done" /\ Len(request.groups) = 1) =>
              /\ response.status = "OPTIMAL"
              /\ response.stats.totalCandidates = 0
              /\ response.stats.selectedCandidates = 0
              /\ response.dutyGroups[1].duties = LastDuties

\* C16 witness: three activities listed in descending id order, two of them
\* tied on both instants, no transition: three singleton duties in canonical
\* order
ZeroTransitionGroupWitness ==
    /\ pc = "done"
    /\ LastGroup.edges = <<>>
    /\ Len(LastGroup.activities) = 3
    /\ LastGroup.activities[1].id = "2"
    /\ LastGroup.activities[2].startMs = LastGroup.activities[3].startMs
    /\ LastDuties = << <<"">>, <<"1">>, <<"2">> >>
    /\ response.status = "OPTIMAL"

\* C17: a group whose activity list is empty, with or without transitions,
\* has status NO_ACTIVITIES, no duty and counts 0/0, and the response holds a
\* duty group entry for it, carrying its identity and an empty duties list.
NoActivitiesGroup ==
    /\ \A g \in 1..gi :
          request.groups[g].activities = <<>> =>
              /\ statuses[g] = "NO_ACTIVITIES"
              /\ duty_groups[g].groupId = request.groups[g].id
              /\ duty_groups[g].duties = <<>>
    /\ (Solved /\ LastGroup.activities = <<>>) =>
          /\ selected = <<>>
          /\ model = EmptyModel
          /\ Len(request.groups) = 1 =>
                total_edges = 0 /\ selected_edges = 0 /\ duty_count = 0
    /\ pc = "done" =>
          /\ Len(response.dutyGroups) = Len(request.groups)
          /\ \A g \in DOMAIN request.groups :
                request.groups[g].activities = <<>> =>
                    /\ response.dutyGroups[g].groupId = request.groups[g].id
                    /\ response.dutyGroups[g].ownerId = request.groups[g].ownerId
                    /\ response.dutyGroups[g].dayKey = request.groups[g].dayKey
                    /\ response.dutyGroups[g].duties = <<>>
          /\ (Len(request.groups) = 1 /\ request.groups[1].activities = <<>>) =>
                /\ response.stats.totalCandidates = 0
                /\ response.stats.selectedCandidates = 0

\* C17 witness: a group without activities that lists two transitions
NoActivitiesGroupWitness ==
    /\ pc = "done"
    /\ LastGroup.activities = <<>>
    /\ Len(LastGroup.edges) = 2
    /\ LastStatus = "NO_ACTIVITIES"
    /\ Len(response.dutyGroups) = 1
    /\ response.dutyGroups[1].duties = <<>>

-----------------------------------------------------------------------------
(* Properties of the service as a whole *)

\* the duties and status each group of the pool may get when it is solved on
\* its own
StandaloneResults ==
    [group \in PoolGroups |-> {<<r.duties, r.status_name>> : r \in solve_group(group)}]

\* the mode `solve` selects
ModeB == request.has_problem /\ request.groups # <<>>

EngineFailures == {"UNKNOWN", "INFEASIBLE", "MODEL_INVALID"}

\* the number of valid transitions of those of the first g groups that the
\* engine solved
RECURSIVE SolvedValidCount(_)
SolvedValidCount(g) ==
    IF g = 0 THEN 0
    ELSE SolvedValidCount(g - 1)
         + (IF statuses[g] \in {"OPTIMAL", "FEASIBLE"}
            THEN Len(ValidTransitions(request.groups[g])) ELSE 0)

\* C14: a group for which the engine returned UNKNOWN, INFEASIBLE or
\* MODEL_INVALID has exactly one singleton duty per activity in canonical
\* order, no selected transition and that status as its group status, and
\* every group's duties are duties that group yields on its own; in mode a
\* such a status comes with an empty selectedIds and an absent score; the
\* handler raises only when weighting a candidate raises, never on account of
\* the engine's status.
EngineFailureDegrades ==
    /\ (ModeB /\ Solved) =>
          /\ \A g \in 1..gi :
                statuses[g] \in EngineFailures =>
                    CanonicalSingletons(duty_groups[g].duties, request.groups[g].activities)
          /\ LastStatus \in EngineFailures => selected = <<>>
          /\ selected_edges <= SolvedValidCount(gi)
          /\ \A g \in 1..gi :
                <<duty_groups[g].duties, statuses[g]>> \in StandaloneResults[request.groups[g]]
          /\ pc = "done" => response.dutyGroups = duty_groups
    /\ (~ModeB /\ pc = "done" /\ response.status \in EngineFailures) =>
          /\ response.selectedIds = <<>>
          /\ response.score = <<>>
          /\ response.stats.selectedCandidates = 0
    /\ pc = "raised" =>
          /\ ~ModeB
          /\ \E k \in DOMAIN Candidates : compute_weight(Candidates[k], request.options).raised

\* C14 witness: the engine failed on the first group and solved the second;
\* the first has its two singleton duties, the second its chain
EngineFailureDegradesWitness ==
    /\ pc = "done"
    /\ gi >= 2
    /\ statuses[1] = "INFEASIBLE"
    /\ Len(request.groups[1].activities) = 2
    /\ Len(duty_groups[1].duties) = 2
    /\ statuses[2] = "OPTIMAL"
    /\ duty_groups[2].duties = << <<"1", "2">> >>
    /\ response.status = "INFEASIBLE"

\* mode a after an engine failure: nothing selected, no score
CandidateFailureWitness ==
    /\ pc = "done"
    /\ ~ModeB
    /\ Len(Candidates) >= 2
    /\ response.status = "UNKNOWN"
    /\ response.selectedIds = <<>>
    /\ response.score = <<>>

\* C15 as stated: whatever a candidate's weight parameter holds (a number, a
\* numeric text, a text that is no number, the texts nan and inf, a boolean,
\* null, nothing), solve does not raise and returns a response with a status,
\* the selected ids among the candidates' ids and consistent counts.
NoFatalErrorPath ==
    /\ pc # "raised"
    /\ pc = "done" =>
          /\ response.status # "<None>"
          /\ response.stats.selectedCandidates <= response.stats.totalCandidates
          /\ ~ModeB => /\ \A j \in DOMAIN response.selectedIds :
                             \E k \in DOMAIN Candidates :
                                Candidates[k].id = response.selectedIds[j]
                       /\ response.stats.selectedCandidates = Len(response.selectedIds)
                       /\ response.stats.totalCandidates = Len(Candidates)

EmptyCandidateList == pc = "done" /\ ~ModeB /\ Candidates = <<>>

\* C18: a request without candidates and without a non-empty groups list is
\* answered with status NO_CANDIDATES, selectedIds = [], no duty group and
\* stats 0/0/0, and no model is built or handed to the engine.
EmptyCandidates ==
    /\ EmptyCandidateList =>
          /\ response.status = "NO_CANDIDATES"
          /\ response.selectedIds = <<>>
          /\ response.dutyGroups = <<>>
          /\ response.stats = [totalCandidates |-> 0, selectedCandidates |-> 0, groupCount |-> 0]
          /\ model = EmptyModel
    /\ (~ModeB /\ Candidates = <<>>) => pc \in {"solve", "solve_candidates", "done"}

\* C18 witness: a problem is present, its groups list is empty, and so is the
\* candidate list
EmptyCandidatesWitness ==
    /\ EmptyCandidateList
    /\ request.has_problem
    /\ request.groups = <<>>
    /\ response.status = "NO_CANDIDATES"

\* C19 as stated: the response to an empty candidate list has score 0.
EmptyScoreZero == EmptyCandidateList => response.score = <<0>>

\* C19 as amended: the response to an empty candidate list has no score
\* (score is None), as for every response without a selection.
EmptyScoreAbsent == EmptyCandidateList => response.score = <<>>

\* C19 witness: an empty candidate list answered NO_CANDIDATES without a score
EmptyScoreAbsentWitness ==
    /\ EmptyCandidateList
    /\ ~request.has_problem
    /\ response.status = "NO_CANDIDATES"
    /\ response.score = <<>>

\* the ids of the candidates an engine outcome selects, in candidate order
ChosenIds(out) ==
    LET Chosen(k) == out.status \in {"OPTIMAL", "FEASIBLE"} /\ out.value[k] = 1
        picked == SelectSeq([k \in DOMAIN Candidates |-> k], Chosen)
    IN  [j \in DOMAIN picked |-> Candidates[picked[j]].id]

\* C20: when the engine was called for a candidate request, the response
\* carries a status and a selection that one outcome of the engine for the
\* model built yields; the score is present exactly when selectedIds is not
\* empty (absent also for a FEASIBLE answer selecting nothing), and when
\* present it is that outcome's objective value, the sum of compute_weight
\* over the selected candidates.
StatusAndScore ==
    (pc = "done" /\ ~ModeB /\ Candidates # <<>>) =>
        /\ response.status \in {"OPTIMAL", "FEASIBLE"} \cup EngineFailures
        /\ \E out \in EngineOutcomes(model) :
              /\ out.status = response.status
              /\ ChosenIds(out) = response.selectedIds
              /\ response.score # <<>> => response.score[1] = ObjectiveValue(model, out.value)
        /\ response.score # <<>> <=> response.selectedIds # <<>>
        /\ response.status \in EngineFailures => response.score = <<>>
        /\ response.score # <<>> =>
              /\ response.score[1] \in Int
              /\ response.score[1] = PickedCandidateWeight(SelectedPositions)

\* C20 witness: two candidates, one of them weighed by defaultWeight 3, both
\* selected in a FEASIBLE answer with score 5 + 3
StatusAndScoreWitness ==
    /\ pc = "done"
    /\ ~ModeB
    /\ response.status = "FEASIBLE"
    /\ response.selectedIds = <<"a", "b">>
    /\ ParamGet(Candidates[1].params, "gapMinutes") = IntV(5)
    /\ ParamGet(Candidates[2].params, "gapMinutes") = StrV(<<"a", "b", "c">>)
    /\ response.score = <<8>>

\* a FEASIBLE answer that selects nothing carries no score
FeasibleEmptyWitness ==
    /\ pc = "done"
    /\ ~ModeB
    /\ Candidates # <<>>
    /\ response.status = "FEASIBLE"
    /\ response.selectedIds = <<>>
    /\ response.score = <<>>

\* the mode whose code produced the response
AnsweredBy(mode) == pc = "done" /\ response.summary[1] = mode

\* C21: solve runs mode b exactly when the problem is present with at least
\* one group; a mode b response has no selected id and no score, its duty
\* groups, status and stats are those the groups alone determine, whatever the
\* candidates and the options maxPerServiceType, maxPerService, weightKey and
\* defaultWeight are; a mode a response has no duty group.
ModeSelection ==
    /\ pc \in {"solve_problem"} => ModeB
    /\ pc \in {"solve_candidates", "raised"} => ~ModeB
    /\ pc = "done" => (AnsweredBy("duties") <=> ModeB) /\ (AnsweredBy("candidates") <=> ~ModeB)
    /\ AnsweredBy("duties") =>
          /\ response.selectedIds = <<>>
          /\ response.score = <<>>
          /\ Len(response.dutyGroups) = Len(request.groups)
          /\ \A g \in DOMAIN request.groups :
                <<response.dutyGroups[g].duties, statuses[g]>>
                    \in StandaloneResults[request.groups[g]]
          /\ response.status = aggregate_status(statuses)
          /\ response.stats = [totalCandidates |-> ValidCount(Len(request.groups)),
                               selectedCandidates |-> selected_edges,
                               groupCount |-> Len(request.groups)]
    /\ AnsweredBy("candidates") => response.dutyGroups = <<>>

\* C21 witness: a request with two groups, a candidate whose weight is the
\* text nan and non-default options is answered by mode b
ModeSelectionWitness ==
    /\ AnsweredBy("duties")
    /\ Len(request.groups) = 2
    /\ Len(Candidates) = 1
    /\ ParamGet(Candidates[1].params, "gapMinutes") = StrV(<<"n", "a", "n">>)
    /\ request.options.default_weight = 3
    /\ response.selectedIds = <<>>
    /\ Len(response.dutyGroups) = 2

-----------------------------------------------------------------------------
(* Properties of mode b: the response as a whole *)

\* the number of duties in the first g duty groups of a list
RECURSIVE DutyTotal(_, _)
DutyTotal(dgs, g) == IF g = 0 THEN 0 ELSE DutyTotal(dgs, g - 1) + Len(dgs[g].duties)

\* the number of activities of the first g groups
RECURSIVE ActivityTotal(_)
ActivityTotal(g) ==
    IF g = 0 THEN 0 ELSE ActivityTotal(g - 1) + Len(request.groups[g].activities)

\* what one solved group adds to the counters: its decision variables, its
\* selected transitions, its activities and its duties
StatsStep ==
    gi' = gi + 1 =>
        /\ total_edges' = total_edges + model'.nvars
        /\ selected_edges' = selected_edges + Len(selected')
        /\ Len(selected') <= model'.nvars
        /\ total_activities' = total_activities + Len(request.groups[gi'].activities)
        /\ duty_count' = duty_count + Len(duty_groups'[gi'].duties)

\* what the response reports
StatsReported ==
    /\ selected_edges <= total_edges
    /\ AnsweredBy("duties") =>
          /\ response.stats.totalCandidates = total_edges
          /\ response.stats.totalCandidates = ValidCount(Len(request.groups))
          /\ response.stats.selectedCandidates = selected_edges
          /\ response.stats.selectedCandidates <= response.stats.totalCandidates
          /\ response.stats.groupCount = Len(request.groups)
          /\ response.summary[2] = DutyTotal(response.dutyGroups, Len(response.dutyGroups))
          /\ response.summary[3] = ActivityTotal(Len(request.groups))
          /\ response.summary[4] = response.status

\* C22: every solved group adds its decision variables to the total count
\* and its selected transitions to the selected count; the response reports
\* these sums (selected never above total), the number of input groups
\* (groups without activities included), and in its summary the number of
\* duties returned and the number of input activities.
ModeBStatistics == []StatsReported /\ [][StatsStep]_vars

\* C22 witness: a group without activities, a solved chain and a group whose
\* only transition dangles: three groups, one variable, one selected, three
\* duties from four activities
ModeBStatisticsWitness ==
    /\ AnsweredBy("duties")
    /\ Len(request.groups) = 3
    /\ \E g \in DOMAIN request.groups : request.groups[g].activities = <<>>
    /\ response.stats = [totalCandidates |-> 1, selectedCandidates |-> 1, groupCount |-> 3]
    /\ response.summary[2] = 3
    /\ response.summary[3] = 4

\* the duty group at position g belongs to the input group at position g
CarriesGroup(dg, group) ==
    /\ dg.groupId = group.id
    /\ dg.ownerId = group.ownerId
    /\ dg.ownerKind = group.ownerKind
    /\ dg.dayKey = group.dayKey

\* C23: the duty groups built so far are those of the first groups of the
\* request, one each, in input order, with id, ownerId, ownerKind and dayKey
\* unchanged, and each holds duties (and has a status) that its group yields
\* when solved on its own; the response holds exactly these duty groups.
GroupIndependence ==
    /\ Len(duty_groups) = gi
    /\ Len(statuses) = gi
    /\ \A g \in 1..gi :
          /\ CarriesGroup(duty_groups[g], request.groups[g])
          /\ <<duty_groups[g].duties, statuses[g]>> \in StandaloneResults[request.groups[g]]
    /\ AnsweredBy("duties") =>
          /\ Len(response.dutyGroups) = Len(request.groups)
          /\ response.dutyGroups = duty_groups

\* C23 witness: the same group stands first and last in a request of three
\* different outcomes: chained the first time, degraded to singletons the
\* last time, with a different group in between
GroupIndependenceWitness ==
    /\ AnsweredBy("duties")
    /\ Len(request.groups) = 3
    /\ request.groups[1] = request.groups[3]
    /\ request.groups[2].id # request.groups[1].id
    /\ Len(response.dutyGroups[1].duties) = 1
    /\ Len(response.dutyGroups[3].duties) = 2
    /\ response.dutyGroups[2].groupId = request.groups[2].id

-----------------------------------------------------------------------------
(* Properties of mode b: the duties of a group *)

\* activity a precedes activity b in the canonical order of the last group
CanonBefore(a, b) ==
    \E i, j \in DOMAIN LastGroup.activities :
        /\ LastGroup.activities[i].id = a
        /\ LastGroup.activities[j].id = b
        /\ KeyLess(LastGroup.activities[i], LastGroup.activities[j])

\* the duties of the last group were reconstructed from an engine solution
Reconstructed == EngineSolved /\ model.nvars > 0

HasSelectedIncoming(a) == \E k \in DOMAIN selected : selected[k].toId = a

HasSelectedOutgoing(a) == \E k \in DOMAIN selected : selected[k].fromId = a

\* a duty found by walking from a chain head: its first activity has no
\* selected incoming transition (and an id that is not the empty string)
HeadedDuty(duty) == ~HasSelectedIncoming(duty[1]) /\ duty[1] # ""

\* C24 as stated: of any two duties of a group, the one listed first has the
\* first activity that comes first in canonical order.
DutyOrderAsStated ==
    Solved =>
        \A d, e \in DOMAIN LastDuties :
            d < e => CanonBefore(LastDuties[d][1], LastDuties[e][1])

\* C24 as amended: the duties walked from a chain head are listed in the
\* canonical order of their first activities; the remaining duties (an
\* activity on a cycle of selected transitions, or the activity whose id is
\* the empty string) are singletons listed after all of them, in canonical
\* order among themselves; a group whose duties are not reconstructed from
\* an engine solution has its singleton duties in canonical order.
DutyOrder ==
    /\ (Solved /\ ~Reconstructed) => DutyOrderAsStated
    /\ Reconstructed =>
          \A d, e \in DOMAIN LastDuties :
              d < e =>
                  /\ HeadedDuty(LastDuties[d]) = HeadedDuty(LastDuties[e])
                        => CanonBefore(LastDuties[d][1], LastDuties[e][1])
                  /\ HeadedDuty(LastDuties[e]) => HeadedDuty(LastDuties[d])
                  /\ ~HeadedDuty(LastDuties[e]) => Len(LastDuties[e]) = 1

\* C24 witness: activities listed in descending order, 1 carrying a selected
\* self-loop and 2->3 selected: the chain [2, 3] is listed before [1]
DutyOrderWitness ==
    /\ EngineSolved
    /\ LastGroup.activities[1].id = "3"
    /\ \E k \in DOMAIN selected : selected[k].fromId = "1" /\ selected[k].toId = "1"
    /\ LastDuties = << <<"2", "3">>, <<"1">> >>

\* activity a lies on a cycle of selected transitions
OnSelectedCycle(a) == a \in ReachedFrom({a}, selected, Len(selected))

\* the places where the transition from a to b shows as a consecutive pair
PairPlaces(a, b) ==
    {<<d, i>> \in (DOMAIN LastDuties) \X (1..MaxActs) :
        /\ i < Len(LastDuties[d])
        /\ LastDuties[d][i] = a
        /\ LastDuties[d][i + 1] = b}

\* C25 as stated: in a group solved by the engine, consecutive activities of
\* a duty are joined by a selected transition, the first activity of a duty
\* has no selected incoming transition or lies on a cycle, the last has no
\* selected outgoing transition or lies on a cycle, and every selected
\* transition not on a cycle is a consecutive pair of exactly one duty; for
\* every activity id, the empty string included.
DutiesAreChains ==
    Reconstructed =>
        /\ \A d \in DOMAIN LastDuties :
              LET duty == LastDuties[d]
              IN  /\ \A i \in 1..(Len(duty) - 1) :
                        \E k \in DOMAIN selected :
                            selected[k].fromId = duty[i] /\ selected[k].toId = duty[i + 1]
                  /\ ~HasSelectedIncoming(duty[1]) \/ OnSelectedCycle(duty[1])
                  /\ ~HasSelectedOutgoing(duty[Len(duty)]) \/ OnSelectedCycle(duty[Len(duty)])
        /\ \A k \in DOMAIN selected :
              ~OnSelectedCycle(selected[k].fromId) =>
                  Cardinality(PairPlaces(selected[k].fromId, selected[k].toId)) = 1

\* the same law for groups none of whose activities has the empty string as id
DutiesAreChainsOfNamed ==
    (Solved /\ "" \notin IdsOf(LastGroup.activities)) => DutiesAreChains

\* C26: when the selected transitions of a group contain a cycle, every
\* activity on the cycle is a singleton duty listed after every duty walked
\* from a chain head and after every duty of two or more activities, no
\* transition of the cycle joins two activities of a duty, all selected
\* transitions (the cycle's included) are counted, and the group keeps the
\* status OPTIMAL or FEASIBLE the engine returned.
CyclePolicy ==
    (Reconstructed /\ HasCycle(selected)) =>
        /\ \A a \in IdsOf(LastGroup.activities) :
              OnSelectedCycle(a) =>
                  \E d \in DOMAIN LastDuties :
                      /\ LastDuties[d] = <<a>>
                      /\ \A e \in DOMAIN LastDuties :
                            (HeadedDuty(LastDuties[e]) \/ Len(LastDuties[e]) >= 2) => e < d
        /\ \A k \in DOMAIN selected :
              OnSelectedCycle(selected[k].fromId) =>
                  PairPlaces(selected[k].fromId, selected[k].toId) = {}
        /\ LastStatus \in {"OPTIMAL", "FEASIBLE"}
        /\ Len(request.groups) = 1 =>
              /\ selected_edges = Len(selected)
              /\ pc = "done" => /\ response.stats.selectedCandidates = Len(selected)
                                /\ response.status = LastStatus

\* C26 witness: 1->2 and 2->1 are both selected, 3 is isolated: the duties
\* are [3], [1], [2], two transitions are counted and the status is OPTIMAL
CyclePolicyWitness ==
    /\ pc = "done"
    /\ Reconstructed
    /\ Len(selected) = 2
    /\ OnSelectedCycle("1") /\ OnSelectedCycle("2")
    /\ LastDuties = << <<"3">>, <<"1">>, <<"2">> >>
    /\ response.stats.selectedCandidates = 2
    /\ response.status = "OPTIMAL"

-----------------------------------------------------------------------------
(* Properties of the models handed to the engine *)

Min2(a, b) == IF a <= b THEN a ELSE b

\* the number of candidates sharing the (serviceId, type) key of candidate k
KeySize(k) == Cardinality({i \in DOMAIN Candidates : SameServiceType(i, k)})

OptimalCandidates ==
    pc = "done" /\ ~ModeB /\ response.status = "OPTIMAL" /\ ~PerServiceSet

\* in an OPTIMAL group no unselected valid transition could be added: its
\* fromId has a selected outgoing or its toId a selected incoming transition
MatchingMaximal ==
    (Solved /\ LastStatus = "OPTIMAL") =>
        \A k \in DOMAIN ValidTransitions(LastGroup) :
            LET e == ValidTransitions(LastGroup)[k]
            IN  e \notin Range(selected) =>
                    HasSelectedOutgoing(e.fromId) \/ HasSelectedIncoming(e.toId)

\* C27 as stated: an OPTIMAL matching is maximal, and in mode a with status
\* OPTIMAL and maxPerService not set every (serviceId, type) group has
\* exactly min(group size, maxPerServiceType) selected candidates and the
\* selection is not empty.
MaximalityAsStated ==
    /\ MatchingMaximal
    /\ OptimalCandidates =>
          /\ \A k \in DOMAIN Candidates :
                SelectedLike(k, SameServiceType)
                    = Min2(KeySize(k), request.options.max_per_service_type)
          /\ response.selectedIds # <<>>

\* C27 as amended: an OPTIMAL matching is maximal, and in mode a with status
\* OPTIMAL and maxPerService not set every (serviceId, type) group has
\* exactly min(group size, max(1, maxPerServiceType)) selected candidates and
\* the selection is not empty.
Maximality ==
    /\ MatchingMaximal
    /\ OptimalCandidates =>
          /\ \A k \in DOMAIN Candidates :
                SelectedLike(k, SameServiceType)
                    = Min2(KeySize(k), Max2(1, request.options.max_per_service_type))
          /\ response.selectedIds # <<>>

\* C27 witness: maxPerServiceType is 0, three candidates in two (serviceId,
\* type) groups, one selected of each group
MaximalityWitness ==
    /\ OptimalCandidates
    /\ request.options.max_per_service_type = 0
    /\ Len(Candidates) = 3
    /\ \E k \in DOMAIN Candidates : KeySize(k) = 2 /\ SelectedLike(k, SameServiceType) = 1
    /\ Len(response.selectedIds) = 2

\* a transition weighing 1 (both data missing) is selected in an OPTIMAL
\* group rather than left out
PenalisedSelectedWitness ==
    /\ Solved
    /\ LastStatus = "OPTIMAL"
    /\ Len(selected) = 2
    /\ \E k \in DOMAIN selected : compute_edge_weight(selected[k]) = 1

-----------------------------------------------------------------------------
(* Properties of mode b: the number of duties *)

\* the duties of the last solved group are its activities less its selected
\* transitions; once the response of a one-group request is assembled, its
\* summary and statistics say the same
DutyCountRelation ==
    /\ Len(LastDuties) = Len(LastGroup.activities) - Len(selected)
    /\ (AnsweredBy("duties") /\ Len(request.groups) = 1) =>
          response.summary[2] = response.summary[3] - response.stats.selectedCandidates

\* C28: for every group with status OPTIMAL or FEASIBLE whose selected
\* transitions contain no cycle, the number of duties equals the number of
\* activities minus the number of selected transitions, and the response
\* reports a duty count equal to the total of activities minus the selected
\* count of its statistics.
DutyCount ==
    (EngineSolved /\ ~HasCycle(selected)) => DutyCountRelation

\* an activity with the empty string as id is an end of a selected transition
EmptyIdSelected ==
    \E k \in DOMAIN selected : selected[k].fromId = "" \/ selected[k].toId = ""

\* the same relation for groups in which no selected transition starts or
\* ends at an activity whose id is the empty string
DutyCountOfNamed ==
    (EngineSolved /\ ~HasCycle(selected) /\ ~EmptyIdSelected) => DutyCountRelation

\* two transitions selected without cycle, none at the empty id: one duty of
\* three activities, reported as 1 duty from 3 activities
DutyCountOfNamedWitness ==
    /\ AnsweredBy("duties")
    /\ EngineSolved /\ ~HasCycle(selected) /\ ~EmptyIdSelected
    /\ Len(selected) = 2
    /\ Len(LastDuties) = 1
    /\ response.summary[2] = 1 /\ response.summary[3] = 3

-----------------------------------------------------------------------------
(* Properties of the models handed to the engine: feasibility *)

AllZero(m) == [k \in 1..m.nvars |-> 0]

\* C29: every constraint of a model built in mode b or in mode a bounds a sum
\* of the model's variables by a limit of at least 1, so the assignment of 0
\* to every variable satisfies the model and the model has a feasible
\* assignment: INFEASIBLE is never a correct answer of the engine.
ModelsFeasible ==
    /\ \A c \in DOMAIN model.constraints :
          /\ model.constraints[c].bound >= 1
          /\ Range(model.constraints[c].vars) \subseteq 1..model.nvars
    /\ Satisfies(model, AllZero(model))
    /\ FeasibleAssignments(model) # {}

\* C29 witness: mode a with both limits given as 0: three candidates, limits
\* of 1 in the model, one candidate selected
ModelsFeasibleWitness ==
    /\ pc = "done" /\ ~ModeB
    /\ request.options.max_per_service_type = 0
    /\ request.options.max_per_service = <<0>>
    /\ model.nvars = 3
    /\ Len(model.constraints) >= 2
    /\ \A c \in DOMAIN model.constraints : model.constraints[c].bound = 1
    /\ response.status = "OPTIMAL"
    /\ Len(response.selectedIds) = 1

\* mode b: the engine answers INFEASIBLE for a model of two variables and six
\* constraints that the assignment of 0 to every variable satisfies
InfeasibleAnswerWitness ==
    /\ Solved
    /\ LastStatus = "INFEASIBLE"
    /\ model.nvars = 2
    /\ Len(model.constraints) = 6
    /\ Satisfies(model, AllZero(model))

-----------------------------------------------------------------------------
(* Properties of build_duties: termination *)

\* the ids appended to a path so far, in the order of the calls of path.append
Appended == Concat(frame.duties) \o frame.path

\* no id was appended twice, and visited holds exactly the ids appended
VisitedOnce ==
    /\ \A i, j \in DOMAIN Appended : i < j => Appended[i] # Appended[j]
    /\ Range(Appended) = frame.visited

\* what build_duties returns is what the duties of a group are computed from
ReturnsDuties ==
    pc = "returned" =>
        /\ frame.duties = build_duties(frame.ordered_ids, frame.selected_edges)
        /\ Range(frame.ordered_ids) \subseteq frame.visited

\* C30: for every list of unique activity ids and every list of selected
\* transitions (cycles, self-loops and several transitions sharing a fromId
\* or a toId included) build_duties returns, and it never visits an id
\* twice: no id is appended to a second path or a second time to its path.
BuildDutiesTerminates ==
    /\ [](VisitedOnce /\ ReturnsDuties)
    /\ <>(pc = "returned")

\* C30 witness: build_duties has returned for three activities and two
\* selected transitions sharing their fromId, one of them a self-loop
BuildDutiesTerminatesWitness ==
    /\ pc = "returned"
    /\ Len(frame.ordered_ids) = 3
    /\ Len(frame.selected_edges) = 2
    /\ frame.selected_edges[1].fromId = frame.selected_edges[2].fromId
    /\ frame.selected_edges[1].toId # frame.selected_edges[2].toId
    /\ frame.selected_edges[2].toId = frame.selected_edges[2].fromId
    /\ Len(frame.duties) = 3

\* build_duties has returned for two selected transitions that form a cycle
\* of two activities
CycleReturnedWitness ==
    /\ pc = "returned"
    /\ Len(frame.selected_edges) = 2
    /\ frame.selected_edges[1].fromId = frame.selected_edges[2].toId
    /\ frame.selected_edges[2].fromId = frame.selected_edges[1].toId
    /\ frame.selected_edges[1].fromId # frame.selected_edges[1].toId

=============================================================================
